---- MODULE Spec2Model ----
(***************************************************************************)
(* Model of the voting and comment subsystem of the stock forum server:    *)
(* like/dislike on stocks and comments, upvote/downvote records on         *)
(* portfolio posts, and the commentCount / lastComment aggregates.         *)
(*                                                                         *)
(* Every request handler is an async function: it runs without             *)
(* interruption between two awaits, and other requests may run at each     *)
(* await.  One action of the model is one such uninterrupted stretch of a  *)
(* handler, ending with the database call it awaits.                       *)
(*                                                                         *)
(* Documents are saved with mongoose's document.save(), which sends only   *)
(* the changes made to the in-memory copy: a changed number or a replaced  *)
(* array is sent as $set of the new value, array.push(x) as $push of x.    *)
(* Replacing an array makes the update conditional on the version key __v  *)
(* the copy was read with (VersionError otherwise); every array change     *)
(* increments __v.                                                         *)
(***************************************************************************)
EXTENDS Integers, Sequences, FiniteSets, TLC

VARIABLES
  stocks,            \* Stock collection: stock id -> document
  comments,          \* Comment collection: comment id -> document
  portfolios,        \* PortfolioPost collection: post id -> document
  portfolioVotes,    \* PortfolioVote collection: set of vote records
  portfolioComments, \* PortfolioComment collection: comment id -> document
  anonIndex,         \* whether the server holds the unique index on anonymous votes
  conversations,     \* Conversation collection: conversation id -> document
  nextId,            \* source of fresh _id values and creation times
  req,               \* the requests being handled: slot -> handler position and locals
  ops,               \* number of requests received so far
  lastVote,          \* history: direction of the last vote each caller was answered 200 for
  pre,               \* history: the collections as the request in progress found them (serial clients)
  serial             \* the clients send a request only after the previous one is answered

vars == <<stocks, comments, portfolios, portfolioVotes, portfolioComments,
          anonIndex, conversations, nextId, req, ops, lastVote, pre, serial>>

----------------------------------------------------------------------------
(* Bounds of the model *)

\* requests received in one behaviour
MaxOps == 3

\* number of comments of the stores the listing is checked on
MaxComments == 4

\* request slots: the requests that may be in progress at the same time
Reqs == {"r1", "r2"}

StockIds == {"s1"}
PortfolioIds == {"p1"}
\* ids a request may name although no stock / portfolio post has them
NoSuchStock == "s0"
NoSuchPortfolio == "p0"
Users == {"u1", "u2"}
Ips == {"ip1"}
NoUser == "null"

\* a caller is what the optional-auth middleware leaves on the request:
\* req.userId (absent without a verifiable token) and req.ip
Callers == [userId : Users, ip : Ips] \cup [userId : {NoUser}, ip : Ips]

----------------------------------------------------------------------------
(* Arrays *)

Includes(arr, x) == \E i \in 1..Len(arr) : arr[i] = x

Filter(arr, x) == SelectSeq(arr, LAMBDA y : y # x)

Count(arr, x) == Cardinality({i \in 1..Len(arr) : arr[i] = x})

Max0(n) == IF n > 0 THEN n ELSE 0

----------------------------------------------------------------------------
(* Caller identity in the like/dislike handlers *)

IsAuthenticated(c) == c.userId # NoUser

\* req.sessionID is never set (no session middleware is installed), so an
\* anonymous caller is identified by req.ip
UserIdentifier(c) == IF IsAuthenticated(c) THEN c.userId ELSE c.ip

LikedField(c) == IF IsAuthenticated(c) THEN "likedBy" ELSE "likedByAnonymous"

DislikedField(c) == IF IsAuthenticated(c) THEN "dislikedBy" ELSE "dislikedByAnonymous"

AlreadyLiked(doc, c) == Includes(doc[LikedField(c)], UserIdentifier(c))

AlreadyDisliked(doc, c) == Includes(doc[DislikedField(c)], UserIdentifier(c))

----------------------------------------------------------------------------
(* document.save() of a document read earlier *)

\* stored: the document in the collection now; snap: the document as it was
\* read; mem: the in-memory copy after the handler changed it; pushed: the
\* array fields changed by push() alone; replaced: the array fields assigned
\* a new array.
VersionConflict(stored, snap, replaced) == replaced # {} /\ stored.version # snap.version

DocumentSave(stored, snap, mem, pushed, replaced) ==
  [f \in DOMAIN stored |->
     IF f = "version"
       THEN IF pushed \cup replaced # {} THEN stored.version + 1 ELSE stored.version
     ELSE IF f \in replaced THEN mem[f]
     ELSE IF f \in pushed
       THEN stored[f] \o SubSeq(mem[f], Len(snap[f]) + 1, Len(mem[f]))
     ELSE IF mem[f] # snap[f] THEN mem[f]
     ELSE stored[f]]

----------------------------------------------------------------------------
(* likeStock / likeComment and dislikeStock / dislikeComment: the changes  *)
(* made to the in-memory document between the duplicate check and save()   *)

LikeDoc(doc, c) ==
  LET id == UserIdentifier(c)
      d1 == IF AlreadyDisliked(doc, c)
              THEN [doc EXCEPT ![DislikedField(c)] = Filter(@, id),
                               !.dislikes = Max0(@ - 1)]
              ELSE doc
  IN [d1 EXCEPT ![LikedField(c)] = Append(@, id), !.likes = @ + 1]

\* dislike that takes the caller out of the likes without lowering the counter
DislikeDoc_CounterKept(doc, c) ==
  LET id == UserIdentifier(c)
      d1 == IF AlreadyLiked(doc, c)
              THEN [doc EXCEPT ![LikedField(c)] = Filter(@, id)]
              ELSE doc
  IN [d1 EXCEPT ![DislikedField(c)] = Append(@, id), !.dislikes = @ + 1]

\* dislike that leaves an earlier like of the caller in place
DislikeDoc_KeepsLike(doc, c) ==
  [doc EXCEPT ![DislikedField(c)] = Append(@, UserIdentifier(c)),
              !.dislikes = @ + 1]

DislikeDoc(doc, c) ==
  LET id == UserIdentifier(c)
      d1 == IF AlreadyLiked(doc, c)
              THEN [doc EXCEPT ![LikedField(c)] = Filter(@, id),
                               !.likes = Max0(@ - 1)]
              ELSE doc
  IN [d1 EXCEPT ![DislikedField(c)] = Append(@, id), !.dislikes = @ + 1]

\* the duplicate check looking into the array of the opposite direction
AlreadyVoted_OppositeArray(doc, c, dir) ==
  IF dir = "like" THEN AlreadyDisliked(doc, c) ELSE AlreadyLiked(doc, c)

\* the duplicate check of a like or dislike request
AlreadyVoted(doc, c, dir) ==
  IF dir = "like" THEN AlreadyLiked(doc, c) ELSE AlreadyDisliked(doc, c)

VoteDoc(doc, c, dir) == IF dir = "like" THEN LikeDoc(doc, c) ELSE DislikeDoc(doc, c)

PushedFields(c, dir) == {IF dir = "like" THEN LikedField(c) ELSE DislikedField(c)}

ReplacedFields(snap, c, dir) ==
  IF dir = "like"
    THEN (IF AlreadyDisliked(snap, c) THEN {DislikedField(c)} ELSE {})
    ELSE (IF AlreadyLiked(snap, c) THEN {LikedField(c)} ELSE {})

----------------------------------------------------------------------------
(* Requests *)

NoCaller == [userId |-> NoUser, ip |-> "none"]

NoDoc == [version |-> 0]

\* the Conversation collection before any conversation is started
NoConversations == [i \in {} |-> NoDoc]

\* no PortfolioVote document
NoVote ==
  [id |-> 0, portfolio |-> "none", user |-> NoUser, ipAddress |-> "none",
   voteType |-> "none"]

\* no answer of getStockComments / getPortfolioComments
NoListing == [top |-> <<>>, replies |-> [i \in {} |-> <<>>]]

IdleReq ==
  [pc |-> "idle", op |-> "none", caller |-> NoCaller, target |-> "none",
   voteType |-> "none", snap |-> NoDoc, mem |-> NoDoc, existing |-> NoVote,
   parent |-> 0, anon |-> FALSE, newId |-> 0, comment |-> NoDoc, status |-> 0,
   content |-> <<>>, listing |-> NoListing]

\* the collections as a request finds them on arrival
Stores ==
  [stocks |-> stocks, comments |-> comments, portfolios |-> portfolios,
   portfolioVotes |-> portfolioVotes, portfolioComments |-> portfolioComments,
   conversations |-> conversations, lastVote |-> lastVote]

NewReq(op, c, t, vt) ==
  [IdleReq EXCEPT !.op = op, !.caller = c, !.target = t, !.voteType = vt]

Answered(rq, code) == [rq EXCEPT !.pc = "done", !.status = code]

\* history of the answers: the direction the caller last voted with success
LastVoteOf(lv, kind, t, c) ==
  IF \E e \in lv[kind] : e.target = t /\ e.caller = c
    THEN (CHOOSE e \in lv[kind] : e.target = t /\ e.caller = c).dir
    ELSE "none"

SetLastVote(lv, kind, t, c, dir) ==
  [lv EXCEPT ![kind] =
     {e \in @ : ~(e.target = t /\ e.caller = c)}
       \cup {[target |-> t, caller |-> c, dir |-> dir]}]

NoVotes == [stock |-> {}, comment |-> {}, portfolio |-> {}]

\* no request other than r is in progress
OthersIdle(r) == \A q \in Reqs \ {r} : req[q].pc = "idle"

\* a request arrives for slot r, among at most n of one behaviour
ReceiveWithin(r, n) ==
  /\ ops < n
  /\ ops' = ops + 1
  /\ serial => OthersIdle(r)
  /\ pre' = IF serial THEN Stores ELSE NoDoc

Receive(r) == ReceiveWithin(r, MaxOps)

----------------------------------------------------------------------------
(* likeStock, dislikeStock *)

\* Stock.findById, the already-voted check and the in-memory changes
VoteStockFind(r, c, s, dir) ==
  /\ req[r].pc = "idle"
  /\ Receive(r)
  /\ LET rq == NewReq("voteStock", c, s, dir)
     IN req' = [req EXCEPT ![r] =
                  IF AlreadyVoted(stocks[s], c, dir)
                    THEN Answered(rq, 400)
                    ELSE [rq EXCEPT !.pc = "save", !.snap = stocks[s]]]
  /\ UNCHANGED <<stocks, comments, portfolios, portfolioVotes, portfolioComments,
                 anonIndex, conversations, serial, nextId, lastVote>>

\* stock.save() and the answer
VoteStockSave(r) ==
  /\ req[r].pc = "save" /\ req[r].op = "voteStock"
  /\ LET rq == req[r]
         c == rq.caller
         s == rq.target
         dir == rq.voteType
         replaced == ReplacedFields(rq.snap, c, dir)
     IN IF VersionConflict(stocks[s], rq.snap, replaced)
          THEN /\ req' = [req EXCEPT ![r] = Answered(rq, 500)]
               /\ UNCHANGED <<stocks, lastVote>>
          ELSE /\ stocks' = [stocks EXCEPT ![s] =
                               DocumentSave(@, rq.snap, VoteDoc(rq.snap, c, dir),
                                            PushedFields(c, dir), replaced)]
               /\ req' = [req EXCEPT ![r] = Answered(rq, 200)]
               /\ lastVote' = SetLastVote(lastVote, "stock", s, c, dir)
  /\ UNCHANGED <<comments, portfolios, portfolioVotes, portfolioComments,
                 anonIndex, conversations, serial, nextId, ops, pre>>

----------------------------------------------------------------------------
(* likeComment, dislikeComment *)

\* Comment.findById, the already-voted check and the in-memory changes
VoteCommentFind(r, c, id, dir) ==
  /\ req[r].pc = "idle"
  /\ Receive(r)
  /\ LET rq == NewReq("voteComment", c, id, dir)
     IN req' = [req EXCEPT ![r] =
                  IF id \notin DOMAIN comments THEN Answered(rq, 404)
                  ELSE IF AlreadyVoted(comments[id], c, dir) THEN Answered(rq, 400)
                  ELSE [rq EXCEPT !.pc = "save", !.snap = comments[id]]]
  /\ UNCHANGED <<stocks, comments, portfolios, portfolioVotes, portfolioComments,
                 anonIndex, conversations, serial, nextId, lastVote>>

\* comment.save() and the answer
VoteCommentSave(r) ==
  /\ req[r].pc = "save" /\ req[r].op = "voteComment"
  /\ LET rq == req[r]
         c == rq.caller
         id == rq.target
         dir == rq.voteType
         replaced == ReplacedFields(rq.snap, c, dir)
     IN IF \/ id \notin DOMAIN comments
           \/ VersionConflict(comments[id], rq.snap, replaced)
          THEN /\ req' = [req EXCEPT ![r] = Answered(rq, 500)]
               /\ UNCHANGED <<comments, lastVote>>
          ELSE /\ comments' = [comments EXCEPT ![id] =
                                 DocumentSave(@, rq.snap, VoteDoc(rq.snap, c, dir),
                                              PushedFields(c, dir), replaced)]
               /\ req' = [req EXCEPT ![r] = Answered(rq, 200)]
               /\ lastVote' = SetLastVote(lastVote, "comment", id, c, dir)
  /\ UNCHANGED <<stocks, portfolios, portfolioVotes, portfolioComments,
                 anonIndex, conversations, serial, nextId, ops, pre>>

\* the answer has been sent: the slot is free for the next request
Respond(r) ==
  /\ req[r].pc = "done"
  /\ req' = [req EXCEPT ![r] = IdleReq]
  /\ pre' = NoDoc
  /\ UNCHANGED <<stocks, comments, portfolios, portfolioVotes, portfolioComments,
                 anonIndex, conversations, serial, nextId, ops, lastVote>>

----------------------------------------------------------------------------
(* votePortfolio *)

\* findOne on the post alone, whoever cast the vote
VotesOf_AnyVoter(c, p) == {v \in portfolioVotes : v.portfolio = p}

\* PortfolioVote.findOne of the caller's vote: by user for an authenticated
\* caller, by ipAddress among the votes without user for an anonymous one
VotesOf(c, p) ==
  IF c.userId # NoUser
    THEN {v \in portfolioVotes : v.portfolio = p /\ v.user = c.userId}
    ELSE {v \in portfolioVotes :
            v.portfolio = p /\ v.ipAddress = c.ip /\ v.user = NoUser}

\* new PortfolioVote({portfolio, user, voteType, ipAddress})
NewVote(id, c, p, vt) ==
  [id |-> id, portfolio |-> p, user |-> c.userId,
   ipAddress |-> IF c.userId # NoUser THEN "none" ELSE c.ip, voteType |-> vt]

\* the two unique indexes of the PortfolioVote collection
DuplicateKey(votes, nv, anonymousIndexed) ==
  \/ /\ nv.user # NoUser
     /\ \E v \in votes : v.portfolio = nv.portfolio /\ v.user = nv.user
  \/ /\ anonymousIndexed
     /\ nv.user = NoUser
     /\ \E v \in votes : /\ v.user = NoUser
                         /\ v.portfolio = nv.portfolio
                         /\ v.ipAddress = nv.ipAddress

\* the counters of the in-memory post after a vote of the type was removed
Unvote(doc, vt) ==
  IF vt = "upvote" THEN [doc EXCEPT !.upvotes = Max0(@ - 1)]
                   ELSE [doc EXCEPT !.downvotes = Max0(@ - 1)]

\* the counters of the in-memory post after a vote of the type was added
Upvote(doc, vt) ==
  IF vt = "upvote" THEN [doc EXCEPT !.upvotes = @ + 1]
                   ELSE [doc EXCEPT !.downvotes = @ + 1]

\* PortfolioPost.findById
VotePortfolioFind(r, c, p, vt) ==
  /\ req[r].pc = "idle"
  /\ Receive(r)
  /\ req' = [req EXCEPT ![r] =
               IF p \in DOMAIN portfolios
                 THEN [NewReq("votePortfolio", c, p, vt) EXCEPT
                         !.pc = "findVote", !.snap = portfolios[p],
                         !.mem = portfolios[p]]
                 ELSE Answered(NewReq("votePortfolio", c, p, vt), 404)]
  /\ UNCHANGED <<stocks, comments, portfolios, portfolioVotes, portfolioComments,
                 anonIndex, conversations, serial, nextId, lastVote>>

\* PortfolioVote.findOne and the same-type check
VotePortfolioFindVote(r) ==
  /\ req[r].pc = "findVote" /\ req[r].op = "votePortfolio"
  /\ LET rq == req[r]
         found == VotesOf(rq.caller, rq.target)
     IN IF found = {}
          THEN req' = [req EXCEPT ![r] = [rq EXCEPT !.pc = "saveVote"]]
          ELSE \E v \in found :
                 req' = [req EXCEPT ![r] =
                           IF v.voteType = rq.voteType
                             THEN Answered(rq, 400)
                             ELSE [rq EXCEPT !.pc = "deleteOld", !.existing = v]]
  /\ UNCHANGED <<stocks, comments, portfolios, portfolioVotes, portfolioComments,
                 anonIndex, conversations, serial, nextId, ops, pre, lastVote>>

\* existingVote.deleteOne(), then the old vote is taken off the in-memory counters
VotePortfolioDeleteOld(r) ==
  /\ req[r].pc = "deleteOld" /\ req[r].op = "votePortfolio"
  /\ portfolioVotes' = {v \in portfolioVotes : v.id # req[r].existing.id}
  /\ req' = [req EXCEPT ![r].pc = "saveVote",
                        ![r].mem = Unvote(@, req[r].existing.voteType)]
  /\ UNCHANGED <<stocks, comments, portfolios, portfolioComments,
                 anonIndex, conversations, serial, nextId, ops, pre, lastVote>>

\* newVote.save(), then the new vote is added to the in-memory counters
VotePortfolioSaveVote(r) ==
  /\ req[r].pc = "saveVote" /\ req[r].op = "votePortfolio"
  /\ LET rq == req[r]
         nv == NewVote(nextId, rq.caller, rq.target, rq.voteType)
     IN IF DuplicateKey(portfolioVotes, nv, anonIndex)
          THEN /\ req' = [req EXCEPT ![r] = Answered(rq, 500)]
               /\ UNCHANGED <<portfolioVotes, nextId>>
          ELSE /\ portfolioVotes' = portfolioVotes \cup {nv}
               /\ nextId' = nextId + 1
               /\ req' = [req EXCEPT ![r].pc = "savePortfolio",
                                     ![r].mem = Upvote(@, rq.voteType)]
  /\ UNCHANGED <<stocks, comments, portfolios, portfolioComments,
                 anonIndex, conversations, serial, ops, pre, lastVote>>

\* portfolio.save() and the answer
VotePortfolioSave(r) ==
  /\ req[r].pc = "savePortfolio" /\ req[r].op = "votePortfolio"
  /\ LET rq == req[r]
     IN IF rq.target \in DOMAIN portfolios
          THEN /\ portfolios' = [portfolios EXCEPT ![rq.target] =
                                   DocumentSave(@, rq.snap, rq.mem, {}, {})]
               /\ req' = [req EXCEPT ![r] = Answered(rq, 200)]
               /\ lastVote' = SetLastVote(lastVote, "portfolio", rq.target, rq.caller,
                                          rq.voteType)
          ELSE /\ req' = [req EXCEPT ![r] = Answered(rq, 500)]
               /\ UNCHANGED <<portfolios, lastVote>>
  /\ UNCHANGED <<stocks, comments, portfolioVotes, portfolioComments,
                 anonIndex, conversations, serial, nextId, ops, pre>>

----------------------------------------------------------------------------
(* removeVote *)

\* PortfolioPost.findById
RemoveVoteFind(r, c, p) ==
  /\ req[r].pc = "idle"
  /\ Receive(r)
  /\ req' = [req EXCEPT ![r] =
               [NewReq("removeVote", c, p, "none") EXCEPT
                  !.pc = "findVote", !.snap = portfolios[p], !.mem = portfolios[p]]]
  /\ UNCHANGED <<stocks, comments, portfolios, portfolioVotes, portfolioComments,
                 anonIndex, conversations, serial, nextId, lastVote>>

\* PortfolioVote.findOne and the no-vote check
RemoveVoteFindVote(r) ==
  /\ req[r].pc = "findVote" /\ req[r].op = "removeVote"
  /\ LET rq == req[r]
         found == VotesOf(rq.caller, rq.target)
     IN IF found = {}
          THEN req' = [req EXCEPT ![r] = Answered(rq, 400)]
          ELSE \E v \in found :
                 req' = [req EXCEPT ![r] =
                           [rq EXCEPT !.pc = "deleteVote", !.existing = v]]
  /\ UNCHANGED <<stocks, comments, portfolios, portfolioVotes, portfolioComments,
                 anonIndex, conversations, serial, nextId, ops, pre, lastVote>>

\* existingVote.deleteOne(), then the vote is taken off the in-memory counters
RemoveVoteDelete(r) ==
  /\ req[r].pc = "deleteVote" /\ req[r].op = "removeVote"
  /\ portfolioVotes' = {v \in portfolioVotes : v.id # req[r].existing.id}
  /\ req' = [req EXCEPT ![r].pc = "savePortfolio",
                        ![r].mem = Unvote(@, req[r].existing.voteType)]
  /\ UNCHANGED <<stocks, comments, portfolios, portfolioComments,
                 anonIndex, conversations, serial, nextId, ops, pre, lastVote>>

\* portfolio.save() and the answer
RemoveVoteSave(r) ==
  /\ req[r].pc = "savePortfolio" /\ req[r].op = "removeVote"
  /\ LET rq == req[r]
     IN /\ portfolios' = [portfolios EXCEPT ![rq.target] =
                            DocumentSave(@, rq.snap, rq.mem, {}, {})]
        /\ req' = [req EXCEPT ![r] = Answered(rq, 200)]
        /\ lastVote' = SetLastVote(lastVote, "portfolio", rq.target, rq.caller,
                                   "none")
  /\ UNCHANGED <<stocks, comments, portfolioVotes, portfolioComments,
                 anonIndex, conversations, serial, nextId, ops, pre>>

----------------------------------------------------------------------------
(* votePortfolio, removeVote: a database call that fails *)

\* the positions at which a vote request awaits a write
WritePositions == {"deleteOld", "saveVote", "deleteVote", "savePortfolio"}

\* the write the request awaits is rejected by the database: nothing is
\* written, the catch block answers 500
StorageFailure(r) ==
  /\ req[r].op \in {"votePortfolio", "removeVote"}
  /\ req[r].pc \in WritePositions
  /\ req' = [req EXCEPT ![r] = Answered(req[r], 500)]
  /\ UNCHANGED <<stocks, comments, portfolios, portfolioVotes, portfolioComments,
                 anonIndex, conversations, serial, nextId, ops, pre, lastVote>>

----------------------------------------------------------------------------
(* Documents as the schemas create them *)

NoComment ==
  [commentId |-> 0, author |-> "null", authorId |-> NoUser, date |-> 0]

NewStock ==
  [likes |-> 0, dislikes |-> 0, likedBy |-> <<>>, likedByAnonymous |-> <<>>,
   dislikedBy |-> <<>>, dislikedByAnonymous |-> <<>>, commentCount |-> 0,
   lastComment |-> NoComment, version |-> 0]

\* the content of the comments as they are created
Posted == <<"p">>

NewComment(stock, parent, author, isAnonymous, at) ==
  [stock |-> stock, conversation |-> "none", parentComment |-> parent,
   author |-> author, content |-> Posted,
   isAnonymous |-> isAnonymous, isReply |-> parent # 0, createdAt |-> at,
   likes |-> 0, dislikes |-> 0, likedBy |-> <<>>, likedByAnonymous |-> <<>>,
   dislikedBy |-> <<>>, dislikedByAnonymous |-> <<>>, version |-> 0]

NewPortfolio ==
  [upvotes |-> 0, downvotes |-> 0, commentCount |-> 0, lastComment |-> NoComment]

NewPortfolioComment(portfolio, parent, author, isAnonymous, at) ==
  [portfolio |-> portfolio, parentComment |-> parent, author |-> author,
   isAnonymous |-> isAnonymous, isReply |-> parent # 0, createdAt |-> at,
   likes |-> 0, dislikes |-> 0, likedBy |-> <<>>, likedByAnonymous |-> <<>>,
   dislikedBy |-> <<>>, dislikedByAnonymous |-> <<>>, version |-> 0]

\* a collection with the document doc added under the _id id
Insert(coll, id, doc) ==
  [i \in DOMAIN coll \cup {id} |-> IF i = id THEN doc ELSE coll[i]]

\* a deletion that takes the replies of the comment with it
Remove_WithReplies(coll, id) ==
  [i \in {j \in DOMAIN coll : j # id /\ coll[j].parentComment # id} |-> coll[i]]

\* a collection without the document of the _id id
Remove(coll, id) == [i \in DOMAIN coll \ {id} |-> coll[i]]

----------------------------------------------------------------------------
(* The pre("save") hook of the comment schemas *)

\* neither or both of stock and conversation are given
NotAssociated(doc) == (doc.stock = "none") = (doc.conversation = "none")

\* the hook rejects a comment that is not anonymous and has no author
PreSaveError(doc) == ~doc.isAnonymous /\ doc.author = NoUser

\* a hook that leaves the author of an anonymous comment in place
PreSave_AuthorKept(doc) == doc

\* the hook clears the author of an anonymous comment
PreSave(doc) ==
  IF doc.isAnonymous /\ doc.author # NoUser THEN [doc EXCEPT !.author = NoUser] ELSE doc

----------------------------------------------------------------------------
(* createComment, createPortfolioComment: the comment and the aggregates *)

\* shouldBeAnonymous = isAnonymous || !userId
ShouldBeAnonymous(c, isAnonymous) == isAnonymous \/ c.userId = NoUser

\* req.user?.username: no middleware of the comment routes assigns req.user
ReqUsername(c) == "null"

\* the author label of the lastComment snapshot written on creation
AuthorLabel(c, isAnonymous) ==
  IF ShouldBeAnonymous(c, isAnonymous) THEN "Anonymous"
  ELSE IF ReqUsername(c) # "null" THEN ReqUsername(c) ELSE "Anonymous"

\* the in-memory target after creation that leaves commentCount alone
WithNewComment_CountKept(doc, id, c, isAnonymous, now) ==
  [doc EXCEPT
     !.lastComment =
        [commentId |-> id, author |-> AuthorLabel(c, isAnonymous),
         authorId |-> IF ShouldBeAnonymous(c, isAnonymous) THEN NoUser ELSE c.userId,
         date |-> now]]

\* the in-memory target (stock or portfolio post) after the handler set
\* lastComment and commentCount for the comment it created
WithNewComment(doc, id, c, isAnonymous, now) ==
  [doc EXCEPT
     !.lastComment =
        [commentId |-> id, author |-> AuthorLabel(c, isAnonymous),
         authorId |-> IF ShouldBeAnonymous(c, isAnonymous) THEN NoUser ELSE c.userId,
         date |-> now],
     !.commentCount = @ + 1]

\* new Comment(...) and comment.save()
CreateCommentSave(r, c, s, parent, isAnonymous) ==
  /\ req[r].pc = "idle"
  /\ Receive(r)
  /\ LET anon == ShouldBeAnonymous(c, isAnonymous)
     IN /\ comments' = Insert(comments, nextId,
                              PreSave(NewComment(s, parent,
                                                 IF anon THEN NoUser ELSE c.userId,
                                                 anon, nextId)))
        /\ req' = [req EXCEPT ![r] =
                     [NewReq("createComment", c, s, "none") EXCEPT
                        !.pc = "findStock", !.parent = parent, !.anon = isAnonymous,
                        !.newId = nextId]]
  /\ nextId' = nextId + 1
  /\ UNCHANGED <<stocks, portfolios, portfolioVotes, portfolioComments,
                 anonIndex, conversations, serial, lastVote>>

\* Stock.findById and the in-memory changes; without stock the handler
\* goes on to the answer
CreateCommentFindStock(r) ==
  /\ req[r].pc = "findStock" /\ req[r].op = "createComment"
  /\ LET rq == req[r]
     IN req' = [req EXCEPT ![r] =
                  IF rq.target \in DOMAIN stocks
                    THEN [rq EXCEPT !.pc = "saveStock", !.snap = stocks[rq.target],
                                    !.mem = WithNewComment(stocks[rq.target], rq.newId,
                                                           rq.caller, rq.anon, nextId)]
                    ELSE Answered(rq, 201)]
  /\ UNCHANGED <<stocks, comments, portfolios, portfolioVotes, portfolioComments,
                 anonIndex, conversations, serial, nextId, ops, pre, lastVote>>

\* stock.save() and the answer; save() finds no document to update when the
\* stock was deleted after it was read, and the handler answers 500
CreateCommentSaveStock(r) ==
  /\ req[r].pc = "saveStock" /\ req[r].op = "createComment"
  /\ LET rq == req[r]
     IN IF rq.target \in DOMAIN stocks
          THEN /\ stocks' = [stocks EXCEPT ![rq.target] =
                               DocumentSave(@, rq.snap, rq.mem, {}, {})]
               /\ req' = [req EXCEPT ![r] = Answered(rq, 201)]
          ELSE /\ req' = [req EXCEPT ![r] = Answered(rq, 500)]
               /\ UNCHANGED stocks
  /\ UNCHANGED <<comments, portfolios, portfolioVotes, portfolioComments,
                 anonIndex, conversations, serial, nextId, ops, pre, lastVote>>

\* PortfolioPost.findById
CreatePortfolioCommentFind(r, c, p, parent, isAnonymous) ==
  /\ req[r].pc = "idle"
  /\ Receive(r)
  /\ LET rq == [NewReq("createPortfolioComment", c, p, "none") EXCEPT
                  !.parent = parent, !.anon = isAnonymous]
     IN req' = [req EXCEPT ![r] =
                  IF p \in DOMAIN portfolios
                    THEN [rq EXCEPT !.pc = IF parent # 0 THEN "findParent"
                                                         ELSE "saveComment",
                                    !.snap = portfolios[p]]
                    ELSE Answered(rq, 404)]
  /\ UNCHANGED <<stocks, comments, portfolios, portfolioVotes, portfolioComments,
                 anonIndex, conversations, serial, nextId, lastVote>>

\* PortfolioComment.findById of the parent comment
CreatePortfolioCommentFindParent(r) ==
  /\ req[r].pc = "findParent" /\ req[r].op = "createPortfolioComment"
  /\ req' = [req EXCEPT ![r] =
               IF req[r].parent \in DOMAIN portfolioComments
                 THEN [req[r] EXCEPT !.pc = "saveComment"]
                 ELSE Answered(req[r], 404)]
  /\ UNCHANGED <<stocks, comments, portfolios, portfolioVotes, portfolioComments,
                 anonIndex, conversations, serial, nextId, ops, pre, lastVote>>

\* new PortfolioComment(...), comment.save() and the in-memory changes
CreatePortfolioCommentSave(r) ==
  /\ req[r].pc = "saveComment" /\ req[r].op = "createPortfolioComment"
  /\ LET rq == req[r]
         anon == ShouldBeAnonymous(rq.caller, rq.anon)
     IN /\ portfolioComments' =
             Insert(portfolioComments, nextId,
                    PreSave(NewPortfolioComment(rq.target, rq.parent,
                                                IF anon THEN NoUser ELSE rq.caller.userId,
                                                anon, nextId)))
        /\ req' = [req EXCEPT ![r] =
                     [rq EXCEPT !.pc = "savePortfolio", !.newId = nextId,
                                !.mem = WithNewComment(rq.snap, nextId, rq.caller,
                                                       rq.anon, nextId + 1)]]
  /\ nextId' = nextId + 1
  /\ UNCHANGED <<stocks, comments, portfolios, portfolioVotes,
                 anonIndex, conversations, serial, ops, pre, lastVote>>

\* portfolio.save() and the answer
CreatePortfolioCommentSavePortfolio(r) ==
  /\ req[r].pc = "savePortfolio" /\ req[r].op = "createPortfolioComment"
  /\ LET rq == req[r]
     IN IF rq.target \in DOMAIN portfolios
          THEN /\ portfolios' = [portfolios EXCEPT ![rq.target] =
                                   DocumentSave(@, rq.snap, rq.mem, {}, {})]
               /\ req' = [req EXCEPT ![r] = Answered(rq, 201)]
          ELSE /\ req' = [req EXCEPT ![r] = Answered(rq, 500)]
               /\ UNCHANGED portfolios
  /\ UNCHANGED <<stocks, comments, portfolioVotes, portfolioComments,
                 anonIndex, conversations, serial, nextId, ops, pre, lastVote>>

----------------------------------------------------------------------------
(* deleteComment *)

\* a check that lets every caller through to the comments without author
NotAuthorized_AuthorOnly(comment, c) ==
  comment.author # NoUser /\ comment.author # c.userId

\* the caller may not delete the comment
NotAuthorized(comment, c) ==
  comment.isAnonymous \/ comment.author = NoUser \/ comment.author # c.userId

\* the _ids of the comments of the stock
CommentsOf(coll, s) == {i \in DOMAIN coll : coll[i].stock = s}

\* the portfolio comments a find({ portfolio: p }) returns
PortfolioCommentsOf(coll, p) == {i \in DOMAIN coll : coll[i].portfolio = p}

\* Comment.findOne({stock}).sort({createdAt: 1}): the oldest comment
FindNext_Oldest(coll, s) ==
  IF CommentsOf(coll, s) = {} THEN 0
  ELSE CHOOSE i \in CommentsOf(coll, s) :
         \A j \in CommentsOf(coll, s) : coll[j].createdAt >= coll[i].createdAt

\* Comment.findOne({stock}).sort({createdAt: -1}): the _id of the most
\* recent comment of the stock, 0 when it has none
FindNext(coll, s) ==
  IF CommentsOf(coll, s) = {} THEN 0
  ELSE CHOOSE i \in CommentsOf(coll, s) :
         \A j \in CommentsOf(coll, s) : coll[j].createdAt <= coll[i].createdAt

\* the lastComment snapshot of a promoted comment; populate("author",
\* "username") yields the author's user document, whose username stands for
\* itself here
Promoted(coll, id) ==
  IF id = 0 THEN NoComment
  ELSE [commentId |-> id,
        author |-> IF coll[id].isAnonymous THEN "Anonymous"
                   ELSE IF coll[id].author # NoUser THEN coll[id].author
                   ELSE "Anonymous",
        authorId |-> IF coll[id].isAnonymous THEN NoUser ELSE coll[id].author,
        date |-> coll[id].createdAt]

\* Comment.findById and the authorization check
DeleteCommentFind(r, c, id) ==
  /\ req[r].pc = "idle"
  /\ Receive(r)
  /\ LET rq == NewReq("deleteComment", c, id, "none")
     IN req' = [req EXCEPT ![r] =
                  IF id \notin DOMAIN comments THEN Answered(rq, 404)
                  ELSE IF NotAuthorized(comments[id], c) THEN Answered(rq, 403)
                  ELSE [rq EXCEPT !.pc = "deleteOne", !.comment = comments[id]]]
  /\ UNCHANGED <<stocks, comments, portfolios, portfolioVotes, portfolioComments,
                 anonIndex, conversations, serial, nextId, lastVote>>

\* comment.deleteOne()
DeleteCommentDeleteOne(r) ==
  /\ req[r].pc = "deleteOne" /\ req[r].op = "deleteComment"
  /\ comments' = Remove(comments, req[r].target)
  /\ req' = [req EXCEPT ![r].pc = "findStock"]
  /\ UNCHANGED <<stocks, portfolios, portfolioVotes, portfolioComments,
                 anonIndex, conversations, serial, nextId, ops, pre, lastVote>>

\* Stock.findById and the test whether the deleted comment is its lastComment
DeleteCommentFindStock(r) ==
  /\ req[r].pc = "findStock" /\ req[r].op = "deleteComment"
  /\ LET rq == req[r]
         stock == stocks[rq.comment.stock]
     IN req' = [req EXCEPT ![r] =
                  [rq EXCEPT !.snap = stock, !.mem = stock,
                             !.pc = IF /\ stock.lastComment # NoComment
                                       /\ stock.lastComment.commentId = rq.target
                                      THEN "findNext" ELSE "saveStock"]]
  /\ UNCHANGED <<stocks, comments, portfolios, portfolioVotes, portfolioComments,
                 anonIndex, conversations, serial, nextId, ops, pre, lastVote>>

\* Comment.findOne of the most recent remaining comment, promoted to lastComment
DeleteCommentFindNext(r) ==
  /\ req[r].pc = "findNext" /\ req[r].op = "deleteComment"
  /\ req' = [req EXCEPT ![r].pc = "saveStock",
                        ![r].mem.lastComment =
                           Promoted(comments, FindNext(comments, req[r].comment.stock))]
  /\ UNCHANGED <<stocks, comments, portfolios, portfolioVotes, portfolioComments,
                 anonIndex, conversations, serial, nextId, ops, pre, lastVote>>

\* commentCount is decremented, stock.save() and the answer
DeleteCommentSaveStock(r) ==
  /\ req[r].pc = "saveStock" /\ req[r].op = "deleteComment"
  /\ LET rq == req[r]
         mem == [rq.mem EXCEPT !.commentCount = Max0(@ - 1)]
     IN /\ stocks' = [stocks EXCEPT ![rq.comment.stock] =
                        DocumentSave(@, rq.snap, mem, {}, {})]
        /\ req' = [req EXCEPT ![r] = Answered(rq, 200)]
  /\ UNCHANGED <<comments, portfolios, portfolioVotes, portfolioComments,
                 anonIndex, conversations, serial, nextId, ops, pre, lastVote>>

----------------------------------------------------------------------------
(* updateComment *)

\* String.prototype.trim on a content given as its characters
RECURSIVE TrimStart(_)
TrimStart(str) == IF str # <<>> /\ Head(str) = " " THEN TrimStart(Tail(str)) ELSE str

RECURSIVE TrimEnd(_)
TrimEnd(str) ==
  IF str # <<>> /\ str[Len(str)] = " " THEN TrimEnd(SubSeq(str, 1, Len(str) - 1)) ELSE str

Trim(str) == TrimEnd(TrimStart(str))

\* the caller may not update the comment
NotAuthorizedToUpdate(comment, c) == c.userId = NoUser \/ NotAuthorized(comment, c)

\* the content check, Comment.findById and the authorization check
UpdateCommentFind(r, c, id, content) ==
  /\ req[r].pc = "idle"
  /\ Receive(r)
  /\ LET rq == [NewReq("updateComment", c, id, "none") EXCEPT !.content = content]
     IN req' = [req EXCEPT ![r] =
                  IF Trim(content) = <<>> THEN Answered(rq, 400)
                  ELSE IF id \notin DOMAIN comments THEN Answered(rq, 404)
                  ELSE IF NotAuthorizedToUpdate(comments[id], c) THEN Answered(rq, 403)
                  ELSE [rq EXCEPT !.pc = "saveComment", !.snap = comments[id],
                                  !.mem = [comments[id] EXCEPT !.content = Trim(content)]]]
  /\ UNCHANGED <<stocks, comments, portfolios, portfolioVotes, portfolioComments,
                 anonIndex, conversations, serial, nextId, lastVote>>

\* comment.save() and the answer; the save of a document that is no longer
\* stored fails
UpdateCommentSave(r) ==
  /\ req[r].pc = "saveComment" /\ req[r].op = "updateComment"
  /\ LET rq == req[r]
     IN IF rq.target \in DOMAIN comments
          THEN /\ comments' = [comments EXCEPT ![rq.target] =
                                 DocumentSave(@, rq.snap, rq.mem, {}, {})]
               /\ req' = [req EXCEPT ![r] = Answered(rq, 200)]
          ELSE /\ comments' = comments
               /\ req' = [req EXCEPT ![r] = Answered(rq, 500)]
  /\ UNCHANGED <<stocks, portfolios, portfolioVotes, portfolioComments,
                 anonIndex, conversations, serial, nextId, ops, pre, lastVote>>

----------------------------------------------------------------------------
(* getStockComments, getPortfolioComments: the tree built from the flat     *)
(* result of find().  The comment objects are shared between commentMap,    *)
(* topLevelComments and the replies arrays, so the JSON answer nests the    *)
(* replies array of every comment that is reached from topLevelComments.    *)

\* find(...).sort({ createdAt: -1 }): the _ids of ids, newest first
RECURSIVE SortDesc(_, _)
SortDesc(coll, ids) ==
  IF ids = {} THEN <<>>
  ELSE LET newest == CHOOSE i \in ids :
                       \A j \in ids : coll[j].createdAt <= coll[i].createdAt
       IN <<newest>> \o SortDesc(coll, ids \ {newest})

\* x put into the array arr, which is in ascending createdAt order, after
\* the elements created before it
InsertSorted(coll, x, arr) ==
  LET k == Cardinality({i \in 1..Len(arr) :
                          coll[arr[i]].createdAt < coll[x].createdAt})
  IN SubSeq(arr, 1, k) \o <<x>> \o SubSeq(arr, k + 1, Len(arr))

\* replies.sort((a, b) => new Date(a.createdAt) - new Date(b.createdAt))
RECURSIVE SortAsc(_, _)
SortAsc(coll, arr) ==
  IF arr = <<>> THEN <<>>
  ELSE InsertSorted(coll, Head(arr), SortAsc(coll, Tail(arr)))

\* a second pass that also keeps the comments whose parent is not found
TopLevelComments_OrphansKept(coll, all) ==
  SelectSeq(all, LAMBDA i : coll[i].parentComment = 0
                            \/ ~Includes(all, coll[i].parentComment))

\* second pass, else branch: the comments without parentComment, in the
\* order of allComments
TopLevelComments(coll, all) == SelectSeq(all, LAMBDA i : coll[i].parentComment = 0)

\* second pass, if branch: what was pushed to the replies array of the
\* comment id of commentMap, in the order of allComments
PushedReplies(coll, all, id) == SelectSeq(all, LAMBDA i : coll[i].parentComment = id)

\* the answer: topLevelComments and the replies array of every comment of
\* commentMap; only the arrays of the top-level comments are sorted
BuildTree(coll, ids) ==
  LET all == SortDesc(coll, ids)
      top == TopLevelComments(coll, all)
  IN [top |-> top,
      replies |-> [i \in ids |->
                     IF Includes(top, i)
                       THEN SortAsc(coll, PushedReplies(coll, all, i))
                       ELSE PushedReplies(coll, all, i)]]

\* Stock.findById
GetStockCommentsFind(r, s) ==
  /\ req[r].pc = "idle"
  /\ Receive(r)
  /\ req' = [req EXCEPT ![r] =
               IF s \in DOMAIN stocks
                 THEN [NewReq("getStockComments", NoCaller, s, "none") EXCEPT
                         !.pc = "findComments"]
                 ELSE Answered(NewReq("getStockComments", NoCaller, s, "none"), 404)]
  /\ UNCHANGED <<stocks, comments, portfolios, portfolioVotes, portfolioComments,
                 anonIndex, conversations, serial, nextId, lastVote>>

\* Comment.find({ stock }), the two passes, the sort of the replies and the
\* answer
GetStockCommentsList(r) ==
  /\ req[r].pc = "findComments" /\ req[r].op = "getStockComments"
  /\ req' = [req EXCEPT ![r] =
               [Answered(req[r], 200) EXCEPT
                  !.listing = BuildTree(comments, CommentsOf(comments, req[r].target))]]
  /\ UNCHANGED <<stocks, comments, portfolios, portfolioVotes, portfolioComments,
                 anonIndex, conversations, serial, nextId, ops, pre, lastVote>>

\* PortfolioPost.findById
GetPortfolioCommentsFind(r, p) ==
  /\ req[r].pc = "idle"
  /\ Receive(r)
  /\ req' = [req EXCEPT ![r] =
               IF p \in DOMAIN portfolios
                 THEN [NewReq("getPortfolioComments", NoCaller, p, "none") EXCEPT
                         !.pc = "findComments"]
                 ELSE Answered(NewReq("getPortfolioComments", NoCaller, p, "none"), 404)]
  /\ UNCHANGED <<stocks, comments, portfolios, portfolioVotes, portfolioComments,
                 anonIndex, conversations, serial, nextId, lastVote>>

\* PortfolioComment.find({ portfolio }), the two passes, the sort of the
\* replies and the answer
GetPortfolioCommentsList(r) ==
  /\ req[r].pc = "findComments" /\ req[r].op = "getPortfolioComments"
  /\ req' = [req EXCEPT ![r] =
               [Answered(req[r], 200) EXCEPT
                  !.listing = BuildTree(portfolioComments,
                                        PortfolioCommentsOf(portfolioComments,
                                                            req[r].target))]]
  /\ UNCHANGED <<stocks, comments, portfolios, portfolioVotes, portfolioComments,
                 anonIndex, conversations, serial, nextId, ops, pre, lastVote>>

----------------------------------------------------------------------------
(* likeConversation, unlikeConversation                                     *)
(* The repository holds two revisions of the conversation controller: the  *)
(* one behind authMiddleware, which knows authenticated callers only, and  *)
(* the one behind optionalAuthMiddleware, which admits anonymous callers.  *)

ConversationIds == {"c1"}
NoSuchConversation == "c0"

\* requests to the conversation routes received in one behaviour
MaxConversationOps == 4

NewConversation ==
  [likes |-> 0, dislikes |-> 0, likedBy |-> <<>>, likedByAnonymous |-> <<>>,
   dislikedBy |-> <<>>, dislikedByAnonymous |-> <<>>, version |-> 0]

\* likeConversation behind authMiddleware: findById and the already-liked check
LikeConversationFind(r, c, id) ==
  /\ req[r].pc = "idle"
  /\ ReceiveWithin(r, MaxConversationOps)
  /\ LET rq == NewReq("likeConversation", c, id, "like")
     IN req' = [req EXCEPT ![r] =
                  IF id \notin DOMAIN conversations THEN Answered(rq, 404)
                  ELSE IF Includes(conversations[id].likedBy, c.userId)
                    THEN Answered(rq, 400)
                  ELSE [rq EXCEPT !.pc = "save", !.snap = conversations[id]]]
  /\ UNCHANGED <<stocks, comments, portfolios, portfolioVotes, portfolioComments,
                 anonIndex, conversations, serial, nextId, lastVote>>

\* likedBy.push, likes += 1, conversation.save() and the answer
LikeConversationSave(r) ==
  /\ req[r].pc = "save" /\ req[r].op = "likeConversation"
  /\ LET rq == req[r]
         mem == [rq.snap EXCEPT !.likedBy = Append(@, rq.caller.userId),
                                !.likes = @ + 1]
     IN /\ conversations' = [conversations EXCEPT ![rq.target] =
                               DocumentSave(@, rq.snap, mem, {"likedBy"}, {})]
        /\ req' = [req EXCEPT ![r] = Answered(rq, 200)]
  /\ UNCHANGED <<stocks, comments, portfolios, portfolioVotes, portfolioComments,
                 anonIndex, serial, nextId, ops, pre, lastVote>>

\* unlikeConversation behind authMiddleware: findById and the has-liked check
UnlikeConversationFind(r, c, id) ==
  /\ req[r].pc = "idle"
  /\ ReceiveWithin(r, MaxConversationOps)
  /\ LET rq == NewReq("unlikeConversation", c, id, "none")
     IN req' = [req EXCEPT ![r] =
                  IF id \notin DOMAIN conversations THEN Answered(rq, 404)
                  ELSE IF ~Includes(conversations[id].likedBy, c.userId)
                    THEN Answered(rq, 400)
                  ELSE [rq EXCEPT !.pc = "save", !.snap = conversations[id]]]
  /\ UNCHANGED <<stocks, comments, portfolios, portfolioVotes, portfolioComments,
                 anonIndex, conversations, serial, nextId, lastVote>>

\* likedBy = likedBy.filter(...), likes -= 1, conversation.save() and the
\* answer; a VersionError is caught and answered 400
UnlikeConversationSave(r) ==
  /\ req[r].pc = "save" /\ req[r].op = "unlikeConversation"
  /\ LET rq == req[r]
         mem == [rq.snap EXCEPT !.likedBy = Filter(@, rq.caller.userId),
                                !.likes = @ - 1]
     IN IF VersionConflict(conversations[rq.target], rq.snap, {"likedBy"})
          THEN /\ req' = [req EXCEPT ![r] = Answered(rq, 400)]
               /\ UNCHANGED conversations
          ELSE /\ conversations' = [conversations EXCEPT ![rq.target] =
                                      DocumentSave(@, rq.snap, mem, {}, {"likedBy"})]
               /\ req' = [req EXCEPT ![r] = Answered(rq, 200)]
  /\ UNCHANGED <<stocks, comments, portfolios, portfolioVotes, portfolioComments,
                 anonIndex, serial, nextId, ops, pre, lastVote>>

\* req.anonymousId: no middleware of the server assigns it
AnonymousId(c) == NoUser

\* the array of the conversation a caller's like is recorded in, if any
ConversationLikedField(c) ==
  IF IsAuthenticated(c) THEN {"likedBy"}
  ELSE IF AnonymousId(c) # NoUser THEN {"likedByAnonymous"}
  ELSE {}

ConversationIdentity(c) == IF IsAuthenticated(c) THEN c.userId ELSE AnonymousId(c)

AlreadyLikedConversation(doc, c) ==
  \E f \in ConversationLikedField(c) : Includes(doc[f], ConversationIdentity(c))

\* the in-memory changes of likeConversation behind optionalAuthMiddleware
LikedConversation(doc, c) ==
  [f \in DOMAIN doc |->
     IF f \in ConversationLikedField(c) THEN Append(doc[f], ConversationIdentity(c))
     ELSE IF f = "likes" THEN doc.likes + 1
     ELSE doc[f]]

\* the in-memory changes of unlikeConversation behind optionalAuthMiddleware
UnlikedConversation(doc, c) ==
  [f \in DOMAIN doc |->
     IF f \in ConversationLikedField(c) THEN Filter(doc[f], ConversationIdentity(c))
     ELSE IF f = "likes" THEN Max0(doc.likes - 1)
     ELSE doc[f]]

\* likeConversation behind optionalAuthMiddleware: findById and the
\* already-liked checks
AnonLikeConversationFind(r, c, id) ==
  /\ req[r].pc = "idle"
  /\ ReceiveWithin(r, MaxConversationOps)
  /\ LET rq == NewReq("anonLikeConversation", c, id, "like")
     IN req' = [req EXCEPT ![r] =
                  IF id \notin DOMAIN conversations THEN Answered(rq, 404)
                  ELSE IF AlreadyLikedConversation(conversations[id], c)
                    THEN Answered(rq, 400)
                  ELSE [rq EXCEPT !.pc = "save", !.snap = conversations[id]]]
  /\ UNCHANGED <<stocks, comments, portfolios, portfolioVotes, portfolioComments,
                 anonIndex, conversations, serial, nextId, lastVote>>

\* conversation.save() and the answer
AnonLikeConversationSave(r) ==
  /\ req[r].pc = "save" /\ req[r].op = "anonLikeConversation"
  /\ LET rq == req[r]
     IN /\ conversations' = [conversations EXCEPT ![rq.target] =
                               DocumentSave(@, rq.snap, LikedConversation(rq.snap, rq.caller),
                                            ConversationLikedField(rq.caller), {})]
        /\ req' = [req EXCEPT ![r] = Answered(rq, 200)]
  /\ UNCHANGED <<stocks, comments, portfolios, portfolioVotes, portfolioComments,
                 anonIndex, serial, nextId, ops, pre, lastVote>>

\* unlikeConversation behind optionalAuthMiddleware: findById; no check of
\* whether the caller has liked
AnonUnlikeConversationFind(r, c, id) ==
  /\ req[r].pc = "idle"
  /\ ReceiveWithin(r, MaxConversationOps)
  /\ LET rq == NewReq("anonUnlikeConversation", c, id, "none")
     IN req' = [req EXCEPT ![r] =
                  IF id \notin DOMAIN conversations THEN Answered(rq, 404)
                  ELSE [rq EXCEPT !.pc = "save", !.snap = conversations[id]]]
  /\ UNCHANGED <<stocks, comments, portfolios, portfolioVotes, portfolioComments,
                 anonIndex, conversations, serial, nextId, lastVote>>

\* conversation.save() and the answer: an array assigned its own content is
\* not a modified path
AnonUnlikeConversationSave(r) ==
  /\ req[r].pc = "save" /\ req[r].op = "anonUnlikeConversation"
  /\ LET rq == req[r]
         mem == UnlikedConversation(rq.snap, rq.caller)
         replaced == {f \in ConversationLikedField(rq.caller) : mem[f] # rq.snap[f]}
     IN IF VersionConflict(conversations[rq.target], rq.snap, replaced)
          THEN /\ req' = [req EXCEPT ![r] = Answered(rq, 400)]
               /\ UNCHANGED conversations
          ELSE /\ conversations' = [conversations EXCEPT ![rq.target] =
                                      DocumentSave(@, rq.snap, mem, {}, replaced)]
               /\ req' = [req EXCEPT ![r] = Answered(rq, 200)]
  /\ UNCHANGED <<stocks, comments, portfolios, portfolioVotes, portfolioComments,
                 anonIndex, serial, nextId, ops, pre, lastVote>>

----------------------------------------------------------------------------
(* addComment of the conversation controller *)

\* a comment of a conversation as new Comment(...) builds it
NewConversationComment(conversation, parent, author, isAnonymous, isReply, at) ==
  [NewComment("none", parent, author, isAnonymous, at) EXCEPT
     !.conversation = conversation, !.isReply = isReply]

\* addComment behind authMiddleware: the author is req.userId, isAnonymous
\* and isReply keep their defaults
AddComment(r, c, id, parent) ==
  /\ req[r].pc = "idle"
  /\ Receive(r)
  /\ LET rq == [NewReq("addComment", c, id, "none") EXCEPT
                  !.parent = parent, !.newId = nextId]
         doc == NewConversationComment(id, parent, c.userId, FALSE, FALSE, nextId)
     IN IF NotAssociated(doc) \/ PreSaveError(doc)
          THEN /\ req' = [req EXCEPT ![r] = Answered(rq, 400)]
               /\ UNCHANGED comments
          ELSE /\ comments' = Insert(comments, nextId, PreSave(doc))
               /\ req' = [req EXCEPT ![r] = Answered(rq, 201)]
  /\ nextId' = nextId + 1
  /\ UNCHANGED <<stocks, portfolios, portfolioVotes, portfolioComments,
                 anonIndex, conversations, serial, lastVote>>

\* addComment behind optionalAuthMiddleware: isAnonymous is taken from the
\* body, the author is req.userId || null
AnonAddComment(r, c, id, parent, isAnonymous) ==
  /\ req[r].pc = "idle"
  /\ Receive(r)
  /\ LET rq == [NewReq("anonAddComment", c, id, "none") EXCEPT
                  !.parent = parent, !.anon = isAnonymous, !.newId = nextId]
         doc == NewConversationComment(id, parent, c.userId, isAnonymous,
                                       parent # 0, nextId)
     IN IF NotAssociated(doc) \/ PreSaveError(doc)
          THEN /\ req' = [req EXCEPT ![r] = Answered(rq, 400)]
               /\ UNCHANGED comments
          ELSE /\ comments' = Insert(comments, nextId, PreSave(doc))
               /\ req' = [req EXCEPT ![r] = Answered(rq, 200)]
  /\ nextId' = nextId + 1
  /\ UNCHANGED <<stocks, portfolios, portfolioVotes, portfolioComments,
                 anonIndex, conversations, serial, lastVote>>

----------------------------------------------------------------------------
(* optionalAuthMiddleware of the stock, comment and portfolio routes *)

\* process.env.JWT_SECRET, and a key the server does not sign with
JwtSecret == "secret"
OtherSecret == "forged"

\* a request without Authorization header
NoToken == [secret |-> "none", id |-> NoUser]

\* bearer tokens: the payload id and the key the token is signed with
Tokens == {NoToken} \cup [secret : {JwtSecret, OtherSecret}, id : Users]

\* jwt.verify throws unless the signature is made with the server's key
JwtVerifies(token) == token.secret = JwtSecret

\* a middleware that reads the payload without verifying the signature
OptionalAuthMiddleware_Unverified(token, ip) ==
  [userId |-> token.id, ip |-> ip, token |-> token]

\* the request as the middleware hands it to the handler: req.userId is set
\* from a verifiable token and left unset otherwise; next() is always called
OptionalAuthMiddleware(token, ip) ==
  [userId |-> IF token # NoToken /\ JwtVerifies(token) THEN token.id ELSE NoUser,
   ip |-> ip, token |-> token]

----------------------------------------------------------------------------
(* deleteStock, deletePortfolio *)

\* stock.createdBy and portfolio.author: set on creation and never changed
CreatedBy(s) == "u1"
PortfolioAuthor(p) == "u1"

\* Stock.findById and the creator check
DeleteStockFind(r, c, s) ==
  /\ req[r].pc = "idle"
  /\ Receive(r)
  /\ LET rq == NewReq("deleteStock", c, s, "none")
     IN req' = [req EXCEPT ![r] =
                  IF s \notin DOMAIN stocks THEN Answered(rq, 404)
                  ELSE IF CreatedBy(s) # c.userId THEN Answered(rq, 403)
                  ELSE [rq EXCEPT !.pc = "deleteComments"]]
  /\ UNCHANGED <<stocks, comments, portfolios, portfolioVotes, portfolioComments,
                 anonIndex, conversations, serial, nextId, lastVote>>

\* Comment.deleteMany({stock})
DeleteStockDeleteMany(r) ==
  /\ req[r].pc = "deleteComments" /\ req[r].op = "deleteStock"
  /\ comments' = [i \in {j \in DOMAIN comments : comments[j].stock # req[r].target}
                    |-> comments[i]]
  /\ req' = [req EXCEPT ![r].pc = "deleteStock"]
  /\ UNCHANGED <<stocks, portfolios, portfolioVotes, portfolioComments,
                 anonIndex, conversations, serial, nextId, ops, pre, lastVote>>

\* Stock.findByIdAndDelete and the answer
DeleteStockDelete(r) ==
  /\ req[r].pc = "deleteStock" /\ req[r].op = "deleteStock"
  /\ stocks' = [s \in DOMAIN stocks \ {req[r].target} |-> stocks[s]]
  /\ req' = [req EXCEPT ![r] = Answered(req[r], 200)]
  /\ UNCHANGED <<comments, portfolios, portfolioVotes, portfolioComments,
                 anonIndex, conversations, serial, nextId, ops, pre, lastVote>>

\* PortfolioPost.findById and the author check
DeletePortfolioFind(r, c, p) ==
  /\ req[r].pc = "idle"
  /\ Receive(r)
  /\ LET rq == NewReq("deletePortfolio", c, p, "none")
     IN req' = [req EXCEPT ![r] =
                  IF p \notin DOMAIN portfolios THEN Answered(rq, 404)
                  ELSE IF PortfolioAuthor(p) # c.userId THEN Answered(rq, 403)
                  ELSE [rq EXCEPT !.pc = "deletePortfolio"]]
  /\ UNCHANGED <<stocks, comments, portfolios, portfolioVotes, portfolioComments,
                 anonIndex, conversations, serial, nextId, lastVote>>

\* portfolio.deleteOne()
DeletePortfolioDeleteOne(r) ==
  /\ req[r].pc = "deletePortfolio" /\ req[r].op = "deletePortfolio"
  /\ portfolios' = [p \in DOMAIN portfolios \ {req[r].target} |-> portfolios[p]]
  /\ req' = [req EXCEPT ![r].pc = "deleteVotesAndComments"]
  /\ UNCHANGED <<stocks, comments, portfolioVotes, portfolioComments,
                 anonIndex, conversations, serial, nextId, ops, pre, lastVote>>

\* Promise.all: PortfolioVote.deleteMany({portfolio}), before or after the
\* deleteMany of the comments; the answer follows the later of the two
DeletePortfolioDeleteVotes(r) ==
  /\ req[r].pc \in {"deleteVotesAndComments", "deleteVotes"}
  /\ req[r].op = "deletePortfolio"
  /\ portfolioVotes' = {v \in portfolioVotes : v.portfolio # req[r].target}
  /\ req' = [req EXCEPT ![r] =
               IF req[r].pc = "deleteVotes" THEN Answered(req[r], 200)
               ELSE [req[r] EXCEPT !.pc = "deleteComments"]]
  /\ UNCHANGED <<stocks, comments, portfolios, portfolioComments,
                 anonIndex, conversations, serial, nextId, ops, pre, lastVote>>

\* Promise.all: PortfolioComment.deleteMany({portfolio})
DeletePortfolioDeleteComments(r) ==
  /\ req[r].pc \in {"deleteVotesAndComments", "deleteComments"}
  /\ req[r].op = "deletePortfolio"
  /\ portfolioComments' =
       [i \in {j \in DOMAIN portfolioComments :
                 portfolioComments[j].portfolio # req[r].target}
          |-> portfolioComments[i]]
  /\ req' = [req EXCEPT ![r] =
               IF req[r].pc = "deleteComments" THEN Answered(req[r], 200)
               ELSE [req[r] EXCEPT !.pc = "deleteVotes"]]
  /\ UNCHANGED <<stocks, comments, portfolios, portfolioVotes,
                 anonIndex, conversations, serial, nextId, ops, pre, lastVote>>

----------------------------------------------------------------------------
(* Comments on a stock and on a portfolio post *)

\* _ids a request may name: those handed out so far
KnownIds == 0 .. (nextId - 1)

\* parentComment of a request body: none (0), or the _id handed out last
ParentIds == {0, nextId - 1}

\* a stock and a portfolio post without comments
CommentInit ==
  /\ stocks = [s \in StockIds |-> NewStock]
  /\ comments = [i \in {} |-> NoDoc]
  /\ portfolios = [p \in PortfolioIds |-> NewPortfolio]
  /\ portfolioVotes = {}
  /\ portfolioComments = [i \in {} |-> NoDoc]
  /\ anonIndex = FALSE
  /\ conversations = NoConversations
  /\ nextId = 1
  /\ req = [r \in Reqs |-> IdleReq]
  /\ ops = 0
  /\ lastVote = NoVotes
  /\ pre = NoDoc
  /\ serial = FALSE

CommentStep(r) ==
  \/ \E c \in Callers, s \in StockIds, parent \in ParentIds, isAnonymous \in BOOLEAN :
       CreateCommentSave(r, c, s, parent, isAnonymous)
  \/ CreateCommentFindStock(r)
  \/ CreateCommentSaveStock(r)
  \/ \E c \in Callers, p \in PortfolioIds, parent \in ParentIds, isAnonymous \in BOOLEAN :
       CreatePortfolioCommentFind(r, c, p, parent, isAnonymous)
  \/ CreatePortfolioCommentFindParent(r)
  \/ CreatePortfolioCommentSave(r)
  \/ CreatePortfolioCommentSavePortfolio(r)
  \/ \E c \in Callers, id \in KnownIds \ {0} :
       c.userId # NoUser /\ DeleteCommentFind(r, c, id)
  \/ DeleteCommentDeleteOne(r)
  \/ DeleteCommentFindStock(r)
  \/ DeleteCommentFindNext(r)
  \/ DeleteCommentSaveStock(r)

\* requests overlapping
CommentNext == \E r \in Reqs : CommentStep(r) \/ Respond(r)

CommentSpec == CommentInit /\ [][CommentNext]_vars

\* a stock with one comment by u1 and a portfolio post without comments
SeqCommentInit ==
  /\ stocks = [s \in StockIds |->
                 [NewStock EXCEPT !.commentCount = 1,
                    !.lastComment = [commentId |-> 1, author |-> "Anonymous",
                                     authorId |-> "u1", date |-> 1]]]
  /\ comments = [i \in {1} |-> NewComment("s1", 0, "u1", FALSE, 1)]
  /\ portfolios = [p \in PortfolioIds |-> NewPortfolio]
  /\ portfolioVotes = {}
  /\ portfolioComments = [i \in {} |-> NoDoc]
  /\ anonIndex = FALSE
  /\ conversations = NoConversations
  /\ nextId = 2
  /\ req = [r \in Reqs |-> IdleReq]
  /\ ops = 0
  /\ lastVote = NoVotes
  /\ pre = NoDoc
  /\ serial = TRUE

SeqCommentSpec == SeqCommentInit /\ [][CommentNext]_vars

----------------------------------------------------------------------------
(* Listing the comments of a stock or a portfolio post *)

\* the _id of a comment that is not in the store
DanglingId == MaxComments + 1

\* parentComment of the comments 1..n: none (0), a comment created earlier,
\* or a comment that is not in the store
ParentsOf(n) ==
  {f \in [1..n -> 0..DanglingId] : \A i \in 1..n : f[i] < i \/ f[i] = DanglingId}

\* lastComment of a target whose newest comment is the anonymous comment n
LastOf(n) ==
  IF n = 0 THEN NoComment
  ELSE [commentId |-> n, author |-> "Anonymous", authorId |-> NoUser, date |-> n]

\* a stock or a portfolio post with up to MaxComments anonymous comments,
\* created in the order of their _ids
ListInit ==
  \E n \in 0..MaxComments, kind \in {"stock", "portfolio"} :
    \E f \in ParentsOf(n) :
      /\ stocks = [s \in StockIds |->
                     IF kind = "stock"
                       THEN [NewStock EXCEPT !.commentCount = n, !.lastComment = LastOf(n)]
                       ELSE NewStock]
      /\ comments = IF kind = "stock"
                      THEN [i \in 1..n |-> NewComment("s1", f[i], NoUser, TRUE, i)]
                      ELSE [i \in {} |-> NoDoc]
      /\ portfolios = [p \in PortfolioIds |->
                         IF kind = "portfolio"
                           THEN [NewPortfolio EXCEPT !.commentCount = n,
                                                     !.lastComment = LastOf(n)]
                           ELSE NewPortfolio]
      /\ portfolioComments =
           IF kind = "portfolio"
             THEN [i \in 1..n |-> NewPortfolioComment("p1", f[i], NoUser, TRUE, i)]
             ELSE [i \in {} |-> NoDoc]
      /\ portfolioVotes = {}
      /\ anonIndex = FALSE
      /\ conversations = NoConversations
      /\ nextId = n + 1
      /\ req = [r \in Reqs |-> IdleReq]
      /\ ops = 0
      /\ lastVote = NoVotes
      /\ pre = NoDoc
      /\ serial = FALSE

ListStep(r) ==
  \/ \E s \in StockIds \cup {NoSuchStock} : GetStockCommentsFind(r, s)
  \/ GetStockCommentsList(r)
  \/ \E p \in PortfolioIds \cup {NoSuchPortfolio} : GetPortfolioCommentsFind(r, p)
  \/ GetPortfolioCommentsList(r)

ListNext == \E r \in Reqs : ListStep(r) \/ Respond(r)

ListSpec == ListInit /\ [][ListNext]_vars

----------------------------------------------------------------------------
(* Updating and deleting the comments of a stock, one request at a time *)

\* the contents a request body may carry
Contents == {<<>>, <<" ">>, <<"e">>, <<" ", "e", " ">>}

\* a comment by u1, an anonymous reply to it and a comment by u2
EditComments ==
  (1 :> NewComment("s1", 0, "u1", FALSE, 1))
    @@ (2 :> NewComment("s1", 1, NoUser, TRUE, 2))
    @@ (3 :> NewComment("s1", 0, "u2", FALSE, 3))

EditInit ==
  /\ stocks = [s \in StockIds |->
                 [NewStock EXCEPT !.commentCount = 3,
                    !.lastComment = [commentId |-> 3, author |-> "Anonymous",
                                     authorId |-> "u2", date |-> 3]]]
  /\ comments = EditComments
  /\ portfolios = [p \in PortfolioIds |-> NewPortfolio]
  /\ portfolioVotes = {}
  /\ portfolioComments = [i \in {} |-> NoDoc]
  /\ anonIndex = FALSE
  /\ conversations = NoConversations
  /\ nextId = 4
  /\ req = [r \in Reqs |-> IdleReq]
  /\ ops = 0
  /\ lastVote = NoVotes
  /\ pre = NoDoc
  /\ serial = TRUE

\* update and delete are behind authMiddleware: the caller is authenticated
EditStep(r) ==
  \/ \E c \in Callers, id \in KnownIds \ {0}, content \in Contents :
       c.userId # NoUser /\ UpdateCommentFind(r, c, id, content)
  \/ UpdateCommentSave(r)
  \/ \E c \in Callers, id \in KnownIds \ {0} :
       c.userId # NoUser /\ DeleteCommentFind(r, c, id)
  \/ DeleteCommentDeleteOne(r)
  \/ DeleteCommentFindStock(r)
  \/ DeleteCommentFindNext(r)
  \/ DeleteCommentSaveStock(r)

EditNext == \E r \in Reqs : EditStep(r) \/ Respond(r)

EditSpec == EditInit /\ [][EditNext]_vars

----------------------------------------------------------------------------
(* Creating comments on targets that may not exist, one request at a time *)

TargetInit ==
  /\ stocks = [s \in StockIds |-> NewStock]
  /\ comments = [i \in {} |-> NoDoc]
  /\ portfolios = [p \in PortfolioIds |-> NewPortfolio]
  /\ portfolioVotes = {}
  /\ portfolioComments = [i \in {} |-> NoDoc]
  /\ anonIndex = FALSE
  /\ conversations = NoConversations
  /\ nextId = 1
  /\ req = [r \in Reqs |-> IdleReq]
  /\ ops = 0
  /\ lastVote = NoVotes
  /\ pre = NoDoc
  /\ serial = TRUE

TargetStep(r) ==
  \/ \E c \in Callers, s \in StockIds \cup {NoSuchStock}, parent \in ParentIds,
        isAnonymous \in BOOLEAN :
       CreateCommentSave(r, c, s, parent, isAnonymous)
  \/ CreateCommentFindStock(r)
  \/ CreateCommentSaveStock(r)
  \/ \E c \in Callers, p \in PortfolioIds \cup {NoSuchPortfolio}, parent \in ParentIds,
        isAnonymous \in BOOLEAN :
       CreatePortfolioCommentFind(r, c, p, parent, isAnonymous)
  \/ CreatePortfolioCommentFindParent(r)
  \/ CreatePortfolioCommentSave(r)
  \/ CreatePortfolioCommentSavePortfolio(r)

TargetNext == \E r \in Reqs : TargetStep(r) \/ Respond(r)

TargetSpec == TargetInit /\ [][TargetNext]_vars

----------------------------------------------------------------------------
(* Likes and dislikes on a stock and on a comment, requests overlapping *)

\* a stock with one comment by u1, nothing voted yet
LikeInit ==
  /\ stocks = [s \in StockIds |->
                 [NewStock EXCEPT !.commentCount = 1,
                    !.lastComment = [commentId |-> 1, author |-> "Anonymous",
                                     authorId |-> "u1", date |-> 1]]]
  /\ comments = [i \in {1} |-> NewComment("s1", 0, "u1", FALSE, 1)]
  /\ portfolios = [p \in PortfolioIds |-> NewPortfolio]
  /\ portfolioVotes = {}
  /\ portfolioComments = [i \in {} |-> NoDoc]
  /\ anonIndex = FALSE
  /\ conversations = NoConversations
  /\ nextId = 2
  /\ req = [r \in Reqs |-> IdleReq]
  /\ ops = 0
  /\ lastVote = NoVotes
  /\ pre = NoDoc
  /\ serial = FALSE

LikeStep(r) ==
  \/ \E c \in Callers, s \in StockIds, dir \in {"like", "dislike"} :
       VoteStockFind(r, c, s, dir)
  \/ VoteStockSave(r)
  \/ \E c \in Callers, id \in DOMAIN comments, dir \in {"like", "dislike"} :
       VoteCommentFind(r, c, id, dir)
  \/ VoteCommentSave(r)

LikeNext == \E r \in Reqs : LikeStep(r) \/ Respond(r)

LikeSpec == LikeInit /\ [][LikeNext]_vars

----------------------------------------------------------------------------
(* Votes on a portfolio post, requests overlapping *)

\* a post without votes; the server may or may not have accepted the
\* anonymous-vote index
PortfolioInit ==
  /\ stocks = [s \in StockIds |-> NewStock]
  /\ comments = [i \in {} |-> NoDoc]
  /\ portfolios = [p \in PortfolioIds |-> NewPortfolio]
  /\ portfolioVotes = {}
  /\ portfolioComments = [i \in {} |-> NoDoc]
  /\ anonIndex \in BOOLEAN
  /\ conversations = NoConversations
  /\ nextId = 1
  /\ req = [r \in Reqs |-> IdleReq]
  /\ ops = 0
  /\ lastVote = NoVotes
  /\ pre = NoDoc
  /\ serial = FALSE

PortfolioStep(r) ==
  \/ \E c \in Callers, p \in PortfolioIds, vt \in {"upvote", "downvote"} :
       VotePortfolioFind(r, c, p, vt)
  \/ VotePortfolioFindVote(r)
  \/ VotePortfolioDeleteOld(r)
  \/ VotePortfolioSaveVote(r)
  \/ VotePortfolioSave(r)
  \/ \E c \in Callers, p \in PortfolioIds : RemoveVoteFind(r, c, p)
  \/ RemoveVoteFindVote(r)
  \/ RemoveVoteDelete(r)
  \/ RemoveVoteSave(r)

PortfolioNext == \E r \in Reqs : PortfolioStep(r) \/ Respond(r)

PortfolioSpec == PortfolioInit /\ [][PortfolioNext]_vars

----------------------------------------------------------------------------
(* Votes on a portfolio post with failing writes, one request at a time *)

FailingVoteInit ==
  /\ stocks = [s \in StockIds |-> NewStock]
  /\ comments = [i \in {} |-> NoDoc]
  /\ portfolios = [p \in PortfolioIds |-> NewPortfolio]
  /\ portfolioVotes = {}
  /\ portfolioComments = [i \in {} |-> NoDoc]
  /\ anonIndex \in BOOLEAN
  /\ conversations = NoConversations
  /\ nextId = 1
  /\ req = [r \in Reqs |-> IdleReq]
  /\ ops = 0
  /\ lastVote = NoVotes
  /\ pre = NoDoc
  /\ serial = TRUE

FailingVoteNext ==
  \E r \in Reqs : PortfolioStep(r) \/ StorageFailure(r) \/ Respond(r)

FailingVoteSpec == FailingVoteInit /\ [][FailingVoteNext]_vars

----------------------------------------------------------------------------
(* Likes, dislikes and portfolio votes, one request at a time *)

SeqVoteInit ==
  /\ stocks = [s \in StockIds |->
                 [NewStock EXCEPT !.commentCount = 1,
                    !.lastComment = [commentId |-> 1, author |-> "Anonymous",
                                     authorId |-> "u1", date |-> 1]]]
  /\ comments = [i \in {1} |-> NewComment("s1", 0, "u1", FALSE, 1)]
  /\ portfolios = [p \in PortfolioIds |-> NewPortfolio]
  /\ portfolioVotes = {}
  /\ portfolioComments = [i \in {} |-> NoDoc]
  /\ anonIndex \in BOOLEAN
  /\ conversations = NoConversations
  /\ nextId = 2
  /\ req = [r \in Reqs |-> IdleReq]
  /\ ops = 0
  /\ lastVote = NoVotes
  /\ pre = NoDoc
  /\ serial = TRUE

SeqVoteNext == \E r \in Reqs : LikeStep(r) \/ PortfolioStep(r) \/ Respond(r)

SeqVoteSpec == SeqVoteInit /\ [][SeqVoteNext]_vars

----------------------------------------------------------------------------
(* Conversations behind authMiddleware, requests overlapping *)

\* the callers authMiddleware lets through
AuthenticatedCallers == {c \in Callers : IsAuthenticated(c)}

ConversationInit ==
  /\ stocks = [s \in StockIds |-> NewStock]
  /\ comments = [i \in {} |-> NoDoc]
  /\ portfolios = [p \in PortfolioIds |-> NewPortfolio]
  /\ portfolioVotes = {}
  /\ portfolioComments = [i \in {} |-> NoDoc]
  /\ anonIndex = FALSE
  /\ conversations = [i \in ConversationIds |-> NewConversation]
  /\ nextId = 1
  /\ req = [r \in Reqs |-> IdleReq]
  /\ ops = 0
  /\ lastVote = NoVotes
  /\ pre = NoDoc
  /\ serial = FALSE

ConversationStep(r) ==
  \/ \E c \in AuthenticatedCallers, id \in ConversationIds \cup {NoSuchConversation} :
       LikeConversationFind(r, c, id) \/ UnlikeConversationFind(r, c, id)
  \/ LikeConversationSave(r)
  \/ UnlikeConversationSave(r)

ConversationNext == \E r \in Reqs : ConversationStep(r) \/ Respond(r)

ConversationSpec == ConversationInit /\ [][ConversationNext]_vars

----------------------------------------------------------------------------
(* Conversations behind optionalAuthMiddleware, one request at a time *)

AnonConversationInit ==
  /\ stocks = [s \in StockIds |-> NewStock]
  /\ comments = [i \in {} |-> NoDoc]
  /\ portfolios = [p \in PortfolioIds |-> NewPortfolio]
  /\ portfolioVotes = {}
  /\ portfolioComments = [i \in {} |-> NoDoc]
  /\ anonIndex = FALSE
  /\ conversations = [i \in ConversationIds |-> NewConversation]
  /\ nextId = 1
  /\ req = [r \in Reqs |-> IdleReq]
  /\ ops = 0
  /\ lastVote = NoVotes
  /\ pre = NoDoc
  /\ serial = TRUE

AnonConversationStep(r) ==
  \/ \E c \in Callers, id \in ConversationIds \cup {NoSuchConversation} :
       AnonLikeConversationFind(r, c, id) \/ AnonUnlikeConversationFind(r, c, id)
  \/ AnonLikeConversationSave(r)
  \/ AnonUnlikeConversationSave(r)

AnonConversationNext == \E r \in Reqs : AnonConversationStep(r) \/ Respond(r)

AnonConversationSpec == AnonConversationInit /\ [][AnonConversationNext]_vars

----------------------------------------------------------------------------
(* Creation of comments on stocks, portfolio posts and conversations, one  *)
(* request at a time                                                        *)

AuthorInit ==
  /\ stocks = [s \in StockIds |-> NewStock]
  /\ comments = [i \in {} |-> NoDoc]
  /\ portfolios = [p \in PortfolioIds |-> NewPortfolio]
  /\ portfolioVotes = {}
  /\ portfolioComments = [i \in {} |-> NoDoc]
  /\ anonIndex = FALSE
  /\ conversations = [i \in ConversationIds |-> NewConversation]
  /\ nextId = 1
  /\ req = [r \in Reqs |-> IdleReq]
  /\ ops = 0
  /\ lastVote = NoVotes
  /\ pre = NoDoc
  /\ serial = TRUE

AuthorStep(r) ==
  \/ \E c \in Callers, s \in StockIds, parent \in ParentIds, isAnonymous \in BOOLEAN :
       CreateCommentSave(r, c, s, parent, isAnonymous)
  \/ CreateCommentFindStock(r)
  \/ CreateCommentSaveStock(r)
  \/ \E c \in Callers, p \in PortfolioIds, parent \in ParentIds, isAnonymous \in BOOLEAN :
       CreatePortfolioCommentFind(r, c, p, parent, isAnonymous)
  \/ CreatePortfolioCommentFindParent(r)
  \/ CreatePortfolioCommentSave(r)
  \/ CreatePortfolioCommentSavePortfolio(r)
  \/ \E c \in AuthenticatedCallers, id \in ConversationIds, parent \in ParentIds :
       AddComment(r, c, id, parent)
  \/ \E c \in Callers, id \in ConversationIds, parent \in ParentIds,
        isAnonymous \in BOOLEAN :
       AnonAddComment(r, c, id, parent, isAnonymous)

AuthorNext == \E r \in Reqs : AuthorStep(r) \/ Respond(r)

AuthorSpec == AuthorInit /\ [][AuthorNext]_vars

----------------------------------------------------------------------------
(* Votes and new comments with and without bearer token, one at a time *)

AuthInit ==
  /\ stocks = [s \in StockIds |->
                 [NewStock EXCEPT !.commentCount = 1,
                    !.lastComment = [commentId |-> 1, author |-> "Anonymous",
                                     authorId |-> "u1", date |-> 1]]]
  /\ comments = [i \in {1} |-> NewComment("s1", 0, "u1", FALSE, 1)]
  /\ portfolios = [p \in PortfolioIds |-> NewPortfolio]
  /\ portfolioVotes = {}
  /\ portfolioComments = [i \in {} |-> NoDoc]
  /\ anonIndex = FALSE
  /\ conversations = NoConversations
  /\ nextId = 2
  /\ req = [r \in Reqs |-> IdleReq]
  /\ ops = 0
  /\ lastVote = NoVotes
  /\ pre = NoDoc
  /\ serial = TRUE

\* requests received through the middleware in one behaviour
MaxAuthOps == 2

\* the callers the middleware makes of the requests
ThroughOptionalAuth == {OptionalAuthMiddleware(t, ip) : t \in Tokens, ip \in Ips}

AuthStep(r) ==
  \/ \E c \in ThroughOptionalAuth, s \in StockIds, dir \in {"like", "dislike"} :
       ops < MaxAuthOps /\ VoteStockFind(r, c, s, dir)
  \/ VoteStockSave(r)
  \/ \E c \in ThroughOptionalAuth, id \in DOMAIN comments, dir \in {"like", "dislike"} :
       ops < MaxAuthOps /\ VoteCommentFind(r, c, id, dir)
  \/ VoteCommentSave(r)
  \/ \E c \in ThroughOptionalAuth, p \in PortfolioIds, vt \in {"upvote", "downvote"} :
       ops < MaxAuthOps /\ VotePortfolioFind(r, c, p, vt)
  \/ VotePortfolioFindVote(r)
  \/ VotePortfolioDeleteOld(r)
  \/ VotePortfolioSaveVote(r)
  \/ VotePortfolioSave(r)
  \/ \E c \in ThroughOptionalAuth, p \in PortfolioIds : RemoveVoteFind(r, c, p)
  \/ RemoveVoteFindVote(r)
  \/ RemoveVoteDelete(r)
  \/ RemoveVoteSave(r)
  \/ \E c \in ThroughOptionalAuth, s \in StockIds, isAnonymous \in BOOLEAN :
       ops < MaxAuthOps /\ CreateCommentSave(r, c, s, 0, isAnonymous)
  \/ CreateCommentFindStock(r)
  \/ CreateCommentSaveStock(r)
  \/ \E c \in ThroughOptionalAuth, p \in PortfolioIds, parent \in ParentIds,
        isAnonymous \in BOOLEAN :
       ops < MaxAuthOps /\ CreatePortfolioCommentFind(r, c, p, parent, isAnonymous)
  \/ CreatePortfolioCommentFindParent(r)
  \/ CreatePortfolioCommentSave(r)
  \/ CreatePortfolioCommentSavePortfolio(r)

AuthNext == \E r \in Reqs : AuthStep(r) \/ Respond(r)

AuthSpec == AuthInit /\ [][AuthNext]_vars

----------------------------------------------------------------------------
(* Deletion of a stock or portfolio post while votes and comments arrive *)

DeleteInit ==
  /\ stocks = [s \in StockIds |-> NewStock]
  /\ comments = [i \in {} |-> NoDoc]
  /\ portfolios = [p \in PortfolioIds |-> NewPortfolio]
  /\ portfolioVotes = {}
  /\ portfolioComments = [i \in {} |-> NoDoc]
  /\ anonIndex = FALSE
  /\ conversations = NoConversations
  /\ nextId = 1
  /\ req = [r \in Reqs |-> IdleReq]
  /\ ops = 0
  /\ lastVote = NoVotes
  /\ pre = NoDoc
  /\ serial = FALSE

\* votes and comments are sent for targets that exist when the request
\* arrives
DeleteStep(r) ==
  \/ \E c \in AuthenticatedCallers, s \in StockIds : DeleteStockFind(r, c, s)
  \/ DeleteStockDeleteMany(r)
  \/ DeleteStockDelete(r)
  \/ \E c \in AuthenticatedCallers, p \in PortfolioIds : DeletePortfolioFind(r, c, p)
  \/ DeletePortfolioDeleteOne(r)
  \/ DeletePortfolioDeleteVotes(r)
  \/ DeletePortfolioDeleteComments(r)
  \/ \E c \in Callers, s \in DOMAIN stocks, isAnonymous \in BOOLEAN :
       CreateCommentSave(r, c, s, 0, isAnonymous)
  \/ CreateCommentFindStock(r)
  \/ CreateCommentSaveStock(r)
  \/ \E c \in Callers, p \in DOMAIN portfolios, vt \in {"upvote", "downvote"} :
       VotePortfolioFind(r, c, p, vt)
  \/ VotePortfolioFindVote(r)
  \/ VotePortfolioDeleteOld(r)
  \/ VotePortfolioSaveVote(r)
  \/ VotePortfolioSave(r)
  \/ \E c \in Callers, p \in DOMAIN portfolios, parent \in ParentIds,
        isAnonymous \in BOOLEAN :
       CreatePortfolioCommentFind(r, c, p, parent, isAnonymous)
  \/ CreatePortfolioCommentFindParent(r)
  \/ CreatePortfolioCommentSave(r)
  \/ CreatePortfolioCommentSavePortfolio(r)

DeleteNext == \E r \in Reqs : DeleteStep(r) \/ Respond(r)

DeleteSpec == DeleteInit /\ [][DeleteNext]_vars

----------------------------------------------------------------------------
(* Replies on two stocks and two portfolio posts, one request at a time *)

TwoStocks == StockIds \cup {"s2"}
TwoPortfolios == PortfolioIds \cup {"p2"}

ThreadInit ==
  /\ stocks = [s \in TwoStocks |-> NewStock]
  /\ comments = [i \in {} |-> NoDoc]
  /\ portfolios = [p \in TwoPortfolios |-> NewPortfolio]
  /\ portfolioVotes = {}
  /\ portfolioComments = [i \in {} |-> NoDoc]
  /\ anonIndex = FALSE
  /\ conversations = NoConversations
  /\ nextId = 1
  /\ req = [r \in Reqs |-> IdleReq]
  /\ ops = 0
  /\ lastVote = NoVotes
  /\ pre = NoDoc
  /\ serial = TRUE

ThreadStep(r) ==
  \/ \E c \in Callers, s \in TwoStocks, parent \in ParentIds, isAnonymous \in BOOLEAN :
       CreateCommentSave(r, c, s, parent, isAnonymous)
  \/ CreateCommentFindStock(r)
  \/ CreateCommentSaveStock(r)
  \/ \E c \in Callers, p \in TwoPortfolios, parent \in ParentIds,
        isAnonymous \in BOOLEAN :
       CreatePortfolioCommentFind(r, c, p, parent, isAnonymous)
  \/ CreatePortfolioCommentFindParent(r)
  \/ CreatePortfolioCommentSave(r)
  \/ CreatePortfolioCommentSavePortfolio(r)

ThreadNext == \E r \in Reqs : ThreadStep(r) \/ Respond(r)

ThreadSpec == ThreadInit /\ [][ThreadNext]_vars

----------------------------------------------------------------------------
(* Properties of overlapping like and dislike requests *)

Counter(doc, dir) == IF dir = "like" THEN doc.likes ELSE doc.dislikes

VotedField(c, dir) == IF dir = "like" THEN LikedField(c) ELSE DislikedField(c)

\* the document a finished like/dislike request voted on, as stored now
VoteTarget(rq) ==
  IF rq.op = "voteStock" THEN stocks[rq.target] ELSE comments[rq.target]

\* r1 and r2 are finished like/dislike requests for the same target and
\* direction that read the same state of the target: each read it before the
\* other wrote it
Overlapped(r1, r2) ==
  /\ r1 # r2
  /\ req[r1].pc = "done" /\ req[r2].pc = "done"
  /\ req[r1].op \in {"voteStock", "voteComment"}
  /\ req[r1].op = req[r2].op
  /\ req[r1].target = req[r2].target
  /\ req[r1].voteType = req[r2].voteType
  /\ req[r1].status # 400 /\ req[r2].status # 400
  /\ req[r1].snap = req[r2].snap

\* C1: two overlapping votes in the same direction by two distinct
\* identities on the same target both succeed, and once both have written
\* (and nobody else has) the counter is 2 higher than what they read.
C1_NoLostIncrement ==
  \A r1, r2 \in Reqs :
    (Overlapped(r1, r2) /\ req[r1].caller # req[r2].caller) =>
      /\ req[r1].status = 200 /\ req[r2].status = 200
      /\ VoteTarget(req[r1]).version = req[r1].snap.version + 2 =>
           Counter(VoteTarget(req[r1]), req[r1].voteType)
             = Counter(req[r1].snap, req[r1].voteType) + 2

\* C2: of two overlapping votes in the same direction by the same identity
\* on the same target at most one takes effect: once both are answered (and
\* nobody else has written) the counter is 1 higher than what they read and
\* the identity is recorded once.
C2_SameIdentityOnce ==
  \A r1, r2 \in Reqs :
    (/\ Overlapped(r1, r2)
     /\ req[r1].caller = req[r2].caller
     /\ VoteTarget(req[r1]).version <= req[r1].snap.version + 2) =>
      /\ Counter(VoteTarget(req[r1]), req[r1].voteType)
           = Counter(req[r1].snap, req[r1].voteType) + 1
      /\ Count(VoteTarget(req[r1])[VotedField(req[r1].caller, req[r1].voteType)],
               UserIdentifier(req[r1].caller)) = 1

InBoth(doc) ==
  \/ \E u \in Users : Includes(doc.likedBy, u) /\ Includes(doc.dislikedBy, u)
  \/ \E i \in Ips : Includes(doc.likedByAnonymous, i)
                      /\ Includes(doc.dislikedByAnonymous, i)

\* C6: no identity is in the liked set and in the disliked set of the same
\* stock or comment.
C6_LikedDislikedDisjoint ==
  /\ \A s \in StockIds : ~InBoth(stocks[s])
  /\ \A id \in DOMAIN comments : ~InBoth(comments[id])

----------------------------------------------------------------------------
(* Properties of single votes (one request at a time) *)

\* the kind of target a vote request addresses
Kind(rq) ==
  IF rq.op = "voteStock" THEN "stock"
  ELSE IF rq.op = "voteComment" THEN "comment" ELSE "portfolio"

VoteOps == {"voteStock", "voteComment", "votePortfolio"}

\* the stored state of everything votes are recorded in
VoteState(st) == <<st.stocks, st.comments, st.portfolios, st.portfolioVotes>>

\* the request in slot r is answered, and it was a vote in the direction of
\* the caller's last successful vote on the same target
DuplicateVote(r) ==
  /\ req[r].pc = "done"
  /\ req[r].op \in VoteOps
  /\ LastVoteOf(pre.lastVote, Kind(req[r]), req[r].target, req[r].caller)
       = req[r].voteType

\* C3: a vote in the direction the identity last voted with success on the
\* target is answered 400 and leaves counters, membership sets and vote
\* records as they were.
C3_DuplicateVoteRejected ==
  \A r \in Reqs :
    DuplicateVote(r) => req[r].status = 400 /\ VoteState(Stores) = VoteState(pre)

C3_Witness ==
  \E r \in Reqs :
    DuplicateVote(r) /\ req[r].op = "votePortfolio" /\ req[r].status = 400

\* the document of the target of a like/dislike request in the collections st
DocIn(st, rq) ==
  IF rq.op = "voteStock" THEN st.stocks[rq.target] ELSE st.comments[rq.target]

Opposite(dir) ==
  CASE dir = "like" -> "dislike"
    [] dir = "dislike" -> "like"
    [] dir = "upvote" -> "downvote"
    [] dir = "downvote" -> "upvote"

\* the types of the vote records the caller has on the post in the votes vs
RecordedTypes(vs, c, p) ==
  {v.voteType : v \in {w \in vs : /\ w.portfolio = p
                                    /\ w.user = c.userId
                                    /\ (c.userId = NoUser => w.ipAddress = c.ip)}}

\* the request in slot r is answered, and on arrival its caller held the
\* opposite vote on the target
SwitchingVote(r) ==
  /\ req[r].pc = "done"
  /\ req[r].op \in VoteOps
  /\ IF req[r].op = "votePortfolio"
       THEN RecordedTypes(pre.portfolioVotes, req[r].caller, req[r].target)
              = {Opposite(req[r].voteType)}
       ELSE AlreadyVoted(DocIn(pre, req[r]), req[r].caller, Opposite(req[r].voteType))

\* C4: a vote by an identity holding the opposite vote succeeds, takes 1 off
\* the opposite counter, adds 1 to the requested one and leaves the identity
\* recorded in the requested direction only.
C4_SwitchMovesOneVote ==
  \A r \in Reqs :
    SwitchingVote(r) =>
      LET rq == req[r]
          dir == rq.voteType
      IN /\ rq.status = 200
         /\ IF rq.op = "votePortfolio"
              THEN LET was == pre.portfolios[rq.target]
                       now == portfolios[rq.target]
                   IN /\ now.upvotes = was.upvotes + (IF dir = "upvote" THEN 1 ELSE -1)
                      /\ now.downvotes = was.downvotes + (IF dir = "upvote" THEN -1 ELSE 1)
                      /\ RecordedTypes(portfolioVotes, rq.caller, rq.target) = {dir}
                      /\ Cardinality(VotesOf(rq.caller, rq.target)) = 1
              ELSE LET was == DocIn(pre, rq)
                       now == DocIn(Stores, rq)
                   IN /\ Counter(now, dir) = Counter(was, dir) + 1
                      /\ Counter(now, Opposite(dir)) = Counter(was, Opposite(dir)) - 1
                      /\ AlreadyVoted(now, rq.caller, dir)
                      /\ ~AlreadyVoted(now, rq.caller, Opposite(dir))

C4_Witness ==
  \E r \in Reqs :
    SwitchingVote(r) /\ req[r].op = "voteComment" /\ req[r].voteType = "dislike"
      /\ req[r].status = 200

\* the request in slot r is an answered removeVote whose caller had no vote
\* record on the post when it arrived
RemoveWithoutVote(r) ==
  /\ req[r].pc = "done"
  /\ req[r].op = "removeVote"
  /\ RecordedTypes(pre.portfolioVotes, req[r].caller, req[r].target) = {}

\* C5: removeVote by an identity without a vote record on the post is
\* answered 400 and leaves upvotes, downvotes and the vote records unchanged.
C5_RemoveWithoutVoteRejected ==
  \A r \in Reqs :
    RemoveWithoutVote(r) =>
      /\ req[r].status = 400
      /\ portfolios = pre.portfolios
      /\ portfolioVotes = pre.portfolioVotes

C5_Witness ==
  \E r \in Reqs :
    RemoveWithoutVote(r) /\ req[r].status = 400 /\ portfolioVotes # {}

----------------------------------------------------------------------------
(* Properties of the vote records under overlapping requests *)

\* C7: every voter identity has at most one vote record on a portfolio post.
C7_OneVoteRecordPerIdentity ==
  \A p \in PortfolioIds, c \in Callers : Cardinality(VotesOf(c, p)) <= 1

----------------------------------------------------------------------------
(* Properties of the comment aggregates *)

NoCommentOpInProgress == \A r \in Reqs : req[r].pc \in {"idle", "done"}

\* C8: while no comment operation is in progress, commentCount of every
\* stock and portfolio post is the number of stored comments that refer to it.
C8_CommentCountMatchesStore ==
  NoCommentOpInProgress =>
    /\ \A s \in StockIds :
         stocks[s].commentCount = Cardinality(CommentsOf(comments, s))
    /\ \A p \in PortfolioIds :
         portfolios[p].commentCount
           = Cardinality(PortfolioCommentsOf(portfolioComments, p))

\* the request in slot r is a deleteComment answered with success
DeletedComment(r) ==
  req[r].pc = "done" /\ req[r].op = "deleteComment" /\ req[r].status = 200

\* the comments the stock of the deleted comment had besides it on arrival
Survivors(r) == CommentsOf(pre.comments, req[r].comment.stock) \ {req[r].target}

\* the deleted comment was the stock's lastComment and others remain
DeletedLastComment(r) ==
  /\ DeletedComment(r)
  /\ pre.stocks[req[r].comment.stock].lastComment.commentId = req[r].target
  /\ Survivors(r) # {}

\* C9: deleting the comment lastComment refers to makes lastComment refer to
\* the most recent of the remaining comments; deleting the only comment of a
\* stock clears lastComment and leaves commentCount 0.
C9_DeletionPromotes ==
  \A r \in Reqs :
    LET now == stocks[req[r].comment.stock]
    IN /\ DeletedLastComment(r) =>
            /\ now.lastComment.commentId \in Survivors(r)
            /\ \A j \in Survivors(r) :
                 pre.comments[j].createdAt
                   <= pre.comments[now.lastComment.commentId].createdAt
       /\ (DeletedComment(r) /\ Survivors(r) = {}) =>
            now.lastComment = NoComment /\ now.commentCount = 0

C9_Witness ==
  \E r \in Reqs : DeletedLastComment(r) /\ Cardinality(Survivors(r)) = 2

\* the request in slot r is a createComment or createPortfolioComment
\* answered with success
CreatedComment(r) ==
  /\ req[r].pc = "done"
  /\ req[r].op \in {"createComment", "createPortfolioComment"}
  /\ req[r].status = 201

\* C10: a successful creation of a comment raises the target's commentCount
\* by 1 and makes lastComment refer to the new comment, labelled "Anonymous"
\* without author id when the comment is anonymous.
C10_CreationUpdatesAggregates ==
  \A r \in Reqs :
    CreatedComment(r) =>
      LET rq == req[r]
          onStock == rq.op = "createComment"
          was == IF onStock THEN pre.stocks[rq.target] ELSE pre.portfolios[rq.target]
          now == IF onStock THEN stocks[rq.target] ELSE portfolios[rq.target]
          coll == IF onStock THEN comments ELSE portfolioComments
      IN /\ rq.newId \in DOMAIN coll
         /\ rq.newId \notin DOMAIN (IF onStock THEN pre.comments
                                               ELSE pre.portfolioComments)
         /\ now.commentCount = was.commentCount + 1
         /\ now.lastComment.commentId = rq.newId
         /\ coll[rq.newId].isAnonymous =>
              now.lastComment.author = "Anonymous" /\ now.lastComment.authorId = NoUser

C10_Witness ==
  \E r \in Reqs :
    /\ CreatedComment(r)
    /\ req[r].op = "createPortfolioComment"
    /\ req[r].parent # 0
    /\ portfolioComments[req[r].newId].isAnonymous

----------------------------------------------------------------------------
(* Properties of the listing *)

Range(arr) == {arr[i] : i \in 1..Len(arr)}

\* the request in slot r is a listing answered with success
Listed(r) ==
  /\ req[r].pc = "done"
  /\ req[r].op \in {"getStockComments", "getPortfolioComments"}
  /\ req[r].status = 200

\* the flat set of comments of the target the request in slot r names
FlatColl(r) == IF req[r].op = "getStockComments" THEN comments ELSE portfolioComments

FlatIds(r) ==
  IF req[r].op = "getStockComments"
    THEN CommentsOf(comments, req[r].target)
    ELSE PortfolioCommentsOf(portfolioComments, req[r].target)

\* the comments of the flat set whose parentComment names none of the set
Orphans(coll, ids) == {i \in ids : coll[i].parentComment # 0 /\ coll[i].parentComment \notin ids}

\* C12: a listing holds a comment whose parent is not among the comments of
\* the target neither at top level nor in the replies of any comment, and it
\* holds every comment without parent once at top level.
C12_OrphansOmitted ==
  \A r \in Reqs :
    Listed(r) =>
      LET tree == req[r].listing
          coll == FlatColl(r)
          ids == FlatIds(r)
      IN /\ \A i \in Orphans(coll, ids) :
              /\ i \notin Range(tree.top)
              /\ \A j \in ids : i \notin Range(tree.replies[j])
         /\ \A i \in ids : coll[i].parentComment = 0 => Count(tree.top, i) = 1

C12_Witness ==
  \E r \in Reqs :
    /\ Listed(r)
    /\ Orphans(FlatColl(r), FlatIds(r)) # {}
    /\ Len(req[r].listing.top) >= 2

\* the comments of a listing: those at top level and, level by level, those
\* in the replies of a comment of the listing
RECURSIVE Nodes(_, _)
Nodes(tree, found) ==
  LET more == found \cup UNION {Range(tree.replies[i]) : i \in found}
  IN IF more = found THEN found ELSE Nodes(tree, more)

Descending(coll, arr) ==
  \A i, j \in 1..Len(arr) : i < j => coll[arr[i]].createdAt >= coll[arr[j]].createdAt

Ascending(coll, arr) ==
  \A i, j \in 1..Len(arr) : i < j => coll[arr[i]].createdAt <= coll[arr[j]].createdAt

\* C13: in a listing the top-level comments are ordered newest first and
\* the replies of every comment of the listing oldest first.
C13_ListingOrder ==
  \A r \in Reqs :
    Listed(r) =>
      LET tree == req[r].listing
          coll == FlatColl(r)
      IN /\ Descending(coll, tree.top)
         /\ \A i \in Nodes(tree, Range(tree.top)) : Ascending(coll, tree.replies[i])

----------------------------------------------------------------------------
(* Properties of the listing of the stores the handlers leave behind *)

\* the listing of the comments a stock has now
StockTree(s) == BuildTree(comments, CommentsOf(comments, s))

\* the listing of the comments a portfolio post has now
PortfolioTree(p) ==
  BuildTree(portfolioComments, PortfolioCommentsOf(portfolioComments, p))

\* the listing of the target of the request in slot r, taken now
TreeNow(r) ==
  IF req[r].op = "createPortfolioComment"
    THEN PortfolioTree(req[r].target)
    ELSE StockTree(req[r].target)

\* C11: the listing taken right after a successful creation holds the new
\* comment: at top level when no parent was given, otherwise in the replies
\* of the comment the given parent id names.
C11_CreatedCommentListed ==
  \A r \in Reqs :
    CreatedComment(r) =>
      LET rq == req[r]
          tree == TreeNow(r)
      IN IF rq.parent = 0
           THEN rq.newId \in Range(tree.top)
           ELSE /\ rq.parent \in Nodes(tree, Range(tree.top))
                /\ rq.newId \in Range(tree.replies[rq.parent])

\* every comment found in the replies of a top-level comment has no replies
TwoLevels(tree) ==
  \A i \in Range(tree.top) : \A j \in Range(tree.replies[i]) : tree.replies[j] = <<>>

\* C14: the listing of every store the handlers can produce has two levels.
C14_ListingHasTwoLevels ==
  /\ \A s \in StockIds : TwoLevels(StockTree(s))
  /\ \A p \in PortfolioIds : TwoLevels(PortfolioTree(p))

\* the replies the deleted comment had on arrival
RepliesOfDeleted(r) ==
  {i \in DOMAIN pre.comments : pre.comments[i].parentComment = req[r].target}

C17_DeletionRemovesReplies ==
  \A r \in Reqs :
    DeletedComment(r) =>
      \A i \in DOMAIN comments : comments[i].parentComment # req[r].target

\* the request in slot r is an answered creation that named a parent
AnsweredReply(r) ==
  /\ req[r].pc = "done"
  /\ req[r].op \in {"createComment", "createPortfolioComment"}
  /\ req[r].parent # 0

\* the comments among which the parent of the creation in slot r is looked up
ParentColl(r) ==
  IF req[r].op = "createComment" THEN pre.comments ELSE pre.portfolioComments

\* C18: a creation naming a parent that is no comment is answered 404 and
\* changes neither the comments nor the targets; a creation naming an
\* existing parent stores a comment with isReply set.
C18_ParentChecked ==
  \A r \in Reqs :
    AnsweredReply(r) =>
      IF req[r].parent \notin DOMAIN ParentColl(r)
        THEN /\ req[r].status = 404
             /\ comments = pre.comments
             /\ portfolioComments = pre.portfolioComments
             /\ stocks = pre.stocks
             /\ portfolios = pre.portfolios
        ELSE req[r].status = 201
             /\ (IF req[r].op = "createComment"
                   THEN comments[req[r].newId].isReply
                   ELSE portfolioComments[req[r].newId].isReply)

----------------------------------------------------------------------------
(* Properties of updateComment and deleteComment *)

\* the request in slot r is an answered update with content, or an answered
\* deletion, of a comment that was stored on arrival
AnsweredEdit(r) ==
  /\ req[r].pc = "done"
  /\ \/ req[r].op = "deleteComment"
     \/ req[r].op = "updateComment" /\ Trim(req[r].content) # <<>>
  /\ req[r].target \in DOMAIN pre.comments

\* the comment is anonymous or of another author than the caller
ForeignComment(comment, c) ==
  comment.isAnonymous \/ comment.author = NoUser \/ comment.author # c.userId

----------------------------------------------------------------------------
(* Properties of creations on targets that do not exist *)

\* the request in slot r is an answered creation whose target did not exist
AnsweredWithoutTarget(r) ==
  /\ req[r].pc = "done"
  /\ \/ req[r].op = "createComment" /\ req[r].target \notin DOMAIN pre.stocks
     \/ req[r].op = "createPortfolioComment" /\ req[r].target \notin DOMAIN pre.portfolios

\* C19: a creation on a target that does not exist is answered 404 and
\* stores no comment, so every stored comment refers to an existing target
\* (no target is deleted here).
C19_TargetChecked ==
  /\ \A r \in Reqs :
       AnsweredWithoutTarget(r) =>
         /\ req[r].status = 404
         /\ comments = pre.comments
         /\ portfolioComments = pre.portfolioComments
  /\ \A i \in DOMAIN comments : comments[i].stock \in DOMAIN stocks
  /\ \A i \in DOMAIN portfolioComments :
       portfolioComments[i].portfolio \in DOMAIN portfolios

----------------------------------------------------------------------------
(* Properties of the vote counters of a portfolio post *)

NoVoteInProgress == \A r \in Reqs : req[r].pc \in {"idle", "done"}

\* the number of vote records of the type stored for the post
RecordsOf(p, vt) ==
  Cardinality({v \in portfolioVotes : v.portfolio = p /\ v.voteType = vt})

\* C20: while no vote request is in progress, also after a request was
\* aborted by a failing write, upvotes and downvotes of every portfolio post
\* equal the numbers of its upvote and downvote records.
C20_CountersMatchRecords ==
  NoVoteInProgress =>
    \A p \in PortfolioIds :
      /\ portfolios[p].upvotes = RecordsOf(p, "upvote")
      /\ portfolios[p].downvotes = RecordsOf(p, "downvote")

----------------------------------------------------------------------------
(* Vote counters *)

\* the documents that carry likes and dislikes
LikeableDocs ==
  {stocks[s] : s \in DOMAIN stocks} \cup {comments[i] : i \in DOMAIN comments}
    \cup {conversations[i] : i \in DOMAIN conversations}

\* C21: in every reachable state, whatever the interleaving of the requests,
\* the likes and dislikes of every stock, comment and conversation and the
\* upvotes and downvotes of every portfolio post are at least 0
C21_CountersNotNegative ==
  /\ \A d \in LikeableDocs : d.likes >= 0 /\ d.dislikes >= 0
  /\ \A p \in DOMAIN portfolios :
       portfolios[p].upvotes >= 0 /\ portfolios[p].downvotes >= 0

----------------------------------------------------------------------------
(* Properties of likeConversation and unlikeConversation, one at a time *)

UnlikeOps == {"unlikeConversation", "anonUnlikeConversation"}

\* an answered unlikeConversation of a caller the conversation did not hold
\* a like of when the request arrived
UnlikeWithoutLike(r) ==
  /\ req[r].pc = "done" /\ req[r].op \in UnlikeOps
  /\ req[r].target \in DOMAIN pre.conversations
  /\ ~AlreadyLikedConversation(pre.conversations[req[r].target], req[r].caller)

\* C22: unlikeConversation by an identity that is not in its liked set is
\* rejected and leaves the likes counter and the liked sets as they were.
C22_UnlikeWithoutLikeRejected ==
  \A r \in Reqs :
    UnlikeWithoutLike(r) => req[r].status = 400 /\ conversations = pre.conversations

----------------------------------------------------------------------------
(* Authors of the stored comments *)

AnonymousIffNoAuthor(doc) == doc.isAnonymous <=> doc.author = NoUser

\* C23: every stored comment, of a stock, a conversation or a portfolio
\* post, is flagged anonymous exactly when it has no author.
C23_AnonymousIffNoAuthor ==
  /\ \A i \in DOMAIN comments : AnonymousIffNoAuthor(comments[i])
  /\ \A i \in DOMAIN portfolioComments : AnonymousIffNoAuthor(portfolioComments[i])

\* an authenticated caller has posted an anonymous comment to a conversation,
\* and stock and portfolio post hold comments too
C23_Witness ==
  /\ \E r \in Reqs :
       /\ req[r].pc = "done" /\ req[r].op = "anonAddComment" /\ req[r].status = 200
       /\ IsAuthenticated(req[r].caller) /\ req[r].anon
       /\ comments[req[r].newId].conversation \in ConversationIds
  /\ \E i \in DOMAIN comments : comments[i].stock \in StockIds
  /\ portfolioComments # <<>>

----------------------------------------------------------------------------
(* Properties of the optional authentication *)

\* the user a bearer token proves, if any
TokenUser(token) == IF token.secret = JwtSecret THEN token.id ELSE NoUser

\* the identity a request with this token and address is to be handled under
ExpectedIdentity(c) ==
  IF TokenUser(c.token) # NoUser THEN TokenUser(c.token) ELSE c.ip

\* the array that is to hold the vote of the request
ExpectedField(rq) ==
  IF TokenUser(rq.caller.token) # NoUser
    THEN (IF rq.voteType = "like" THEN "likedBy" ELSE "dislikedBy")
    ELSE (IF rq.voteType = "like" THEN "likedByAnonymous" ELSE "dislikedByAnonymous")

\* the effect of an answered request carries the identity its token stands for
HandledUnderTokenIdentity(rq) ==
  LET u == TokenUser(rq.caller.token)
  IN /\ rq.op = "voteStock" /\ rq.status = 200 =>
          Includes(stocks[rq.target][ExpectedField(rq)], ExpectedIdentity(rq.caller))
     /\ rq.op = "voteComment" /\ rq.status = 200 =>
          Includes(comments[rq.target][ExpectedField(rq)], ExpectedIdentity(rq.caller))
     /\ rq.op = "votePortfolio" /\ rq.status = 200 =>
          \E v \in portfolioVotes :
            /\ v.portfolio = rq.target /\ v.voteType = rq.voteType /\ v.user = u
            /\ u = NoUser => v.ipAddress = rq.caller.ip
     /\ rq.op = "createComment" /\ rq.status = 201 =>
          /\ comments[rq.newId].author = (IF rq.anon THEN NoUser ELSE u)
          /\ comments[rq.newId].isAnonymous = (rq.anon \/ u = NoUser)
     /\ rq.op = "createPortfolioComment" /\ rq.status = 201 =>
          /\ portfolioComments[rq.newId].author = (IF rq.anon THEN NoUser ELSE u)
          /\ portfolioComments[rq.newId].isAnonymous = (rq.anon \/ u = NoUser)

\* C24: a vote or a new comment on a stock, a comment or a portfolio post is
\* never answered with an authentication error for a missing or unverifiable
\* bearer token: it is handled under the anonymous identity, and with a
\* verifiable token under the id of the token.
C24_TokenNeverRejected ==
  \A r \in Reqs :
    req[r].pc = "done" =>
      /\ req[r].status \notin {401, 403}
      /\ HandledUnderTokenIdentity(req[r])

\* a like with a token signed with another key has been answered 200 after a
\* like with a verifiable token was
C24_Witness ==
  \E r \in Reqs :
    /\ req[r].pc = "done" /\ req[r].op = "voteStock" /\ req[r].status = 200
    /\ req[r].caller.token.secret = OtherSecret
    /\ stocks[req[r].target].likedBy # <<>>

----------------------------------------------------------------------------
(* Counters and identity arrays, one request at a time *)

Identities(arr) == {arr[i] : i \in 1..Len(arr)}

CountersMatchArrays(doc) ==
  /\ doc.likes = Cardinality(Identities(doc.likedBy))
                   + Cardinality(Identities(doc.likedByAnonymous))
  /\ doc.dislikes = Cardinality(Identities(doc.dislikedBy))
                      + Cardinality(Identities(doc.dislikedByAnonymous))

\* C25: with likeStock, dislikeStock, likeComment and dislikeComment running
\* one at a time on targets that start with zero counters and empty arrays,
\* likes is the number of identities in likedBy and likedByAnonymous and
\* dislikes the number in dislikedBy and dislikedByAnonymous.
C25_CountersMatchArrays ==
  /\ \A s \in DOMAIN stocks : CountersMatchArrays(stocks[s])
  /\ \A i \in DOMAIN comments : CountersMatchArrays(comments[i])

\* a caller who had liked the stock has disliked it while the like of
\* another caller stays
C25_Witness ==
  \E r \in Reqs :
    /\ req[r].pc = "done" /\ req[r].op = "voteStock" /\ req[r].status = 200
    /\ req[r].voteType = "dislike"
    /\ AlreadyLiked(pre.stocks[req[r].target], req[r].caller)
    /\ stocks[req[r].target].likes = 1

\* C26: with likeConversation and unlikeConversation of authenticated and
\* anonymous callers running one at a time on a conversation that starts
\* with likes = 0 and empty arrays, likes is the number of identities in
\* likedBy and likedByAnonymous.
C26_ConversationLikesMatch ==
  \A i \in DOMAIN conversations :
    conversations[i].likes = Cardinality(Identities(conversations[i].likedBy))
                               + Cardinality(Identities(conversations[i].likedByAnonymous))

----------------------------------------------------------------------------
(* The lastComment snapshot of a stock *)

\* lastComment of the stock refers to the youngest of its stored comments,
\* and to none when it has no comment
LastCommentIsNewest(s) ==
  LET cs == CommentsOf(comments, s)
      last == stocks[s].lastComment
  IN /\ last = NoComment <=> cs = {}
     /\ cs # {} =>
          /\ last.commentId \in cs
          /\ \A j \in cs : comments[j].createdAt <= comments[last.commentId].createdAt

\* C27: while no comment operation is in progress, lastComment of a stock is
\* null exactly when the stock has no comments and otherwise refers to the
\* most recently created comment the stock still has, also after createComment
\* and deleteComment requests on the stock have overlapped.
C27_LastCommentIsNewest ==
  NoCommentOpInProgress => \A s \in StockIds : LastCommentIsNewest(s)

\* the label of a snapshot is "Anonymous" exactly when it names no author
LabelMatchesAuthor(last) ==
  last # NoComment => (last.author = "Anonymous" <=> last.authorId = NoUser)

\* C28: a lastComment snapshot of a stock or portfolio post carries the
\* author label "Anonymous" exactly when its author id is null, whether
\* createComment or the promotion of deleteComment wrote it.
C28_LabelMatchesAuthor ==
  /\ \A s \in DOMAIN stocks : LabelMatchesAuthor(stocks[s].lastComment)
  /\ \A p \in DOMAIN portfolios : LabelMatchesAuthor(portfolios[p].lastComment)

----------------------------------------------------------------------------
(* Comments and votes of deleted targets *)

NoRequestInProgress == \A r \in Reqs : req[r].pc \in {"idle", "done"}

\* the stocks and portfolio posts that have been deleted
DeletedStocks == StockIds \ DOMAIN stocks
DeletedPortfolios == PortfolioIds \ DOMAIN portfolios

\* C29: once a deleteStock or deletePortfolio has been answered and no
\* request is in progress, no stored comment and no vote record refers to the
\* deleted target, also when a createComment or votePortfolio that found the
\* target overlapped the deletion.
C29_NothingRefersToDeleted ==
  NoRequestInProgress =>
    /\ \A s \in DeletedStocks : CommentsOf(comments, s) = {}
    /\ \A p \in DeletedPortfolios :
         /\ PortfolioCommentsOf(portfolioComments, p) = {}
         /\ \A v \in portfolioVotes : v.portfolio # p

----------------------------------------------------------------------------
(* Replies and the target of their parent *)

\* the stored parents of the replies of a collection
RepliesWithParent(coll) ==
  {i \in DOMAIN coll : coll[i].parentComment # 0 /\ coll[i].parentComment \in DOMAIN coll}

\* C30: every stored comment that names a parent comment which exists is on
\* the same stock, or the same portfolio post, as that parent.
C30_ReplyOnParentsTarget ==
  /\ \A i \in RepliesWithParent(comments) :
       comments[i].stock = comments[comments[i].parentComment].stock
  /\ \A i \in RepliesWithParent(portfolioComments) :
       portfolioComments[i].portfolio
         = portfolioComments[portfolioComments[i].parentComment].portfolio

====
